---------------------------- MODULE Spec2Model ----------------------------
(***************************************************************************)
(* A model of the tabular Q-learning sandbox: the grid world               *)
(* (environment/world.py), the Q-learning agent                            *)
(* (agent/q_learning_agent.py) and the trainer (training/trainer.py).      *)
(*                                                                         *)
(* Cells are <<row, column>> pairs.  Q-values and rewards are exact        *)
(* rationals <<numerator, denominator>> in lowest terms where rounding     *)
(* plays no part, and binary64 numbers, rounded as numpy rounds them, in   *)
(* SpecBinary64, where update_q_table is repeated until rounding shows.    *)
(***************************************************************************)
EXTENDS Integers, Sequences, FiniteSets, TLC

VARIABLES
    size,            \* World.size
    obstacle_density, \* World.obstacle_density, in percent
    grid,            \* World.grid: cell -> cell kind
    obstacles,       \* World.obstacles: the cells sampled as obstacles
    start_position,  \* World.start_position
    goal_position,   \* World.goal_position
    position,        \* QLearningAgent.position
    direction,       \* QLearningAgent.direction
    q_table,         \* QLearningAgent.q_table: state -> 4 action values
    pc,              \* "idle", or where train_episode ("loop") or
                     \* find_optimal_path ("path", "break") stands, or
                     \* "new" and "raised" before and after a World.reset
                     \* that raises
    max_steps,       \* the argument of train_episode or find_optimal_path
    steps,           \* the local steps of train_episode or find_optimal_path
    total_reward,    \* train_episode's local total_reward
    done,            \* the local done of train_episode or find_optimal_path
    path,            \* find_optimal_path's local path, and what it returned
    current_path,    \* Trainer.current_path
    visited_cells,   \* Trainer.visited_cells
    training_status, \* main.training_status
    training_thread, \* main.training_thread and where train_agent_thread stands
    request,         \* the request handler under way that runs the Trainer
    requests,        \* the number of requests received so far
    trace            \* the calls completed so far, each with what it returned

worldVars == <<size, obstacle_density, grid, obstacles, start_position, goal_position>>
agentVars == <<position, direction, q_table>>
trainVars == <<pc, max_steps, steps, total_reward, done, path, current_path,
               visited_cells>>
apiVars == <<training_status, training_thread, request, requests>>
vars == <<worldVars, agentVars, trainVars, apiVars, trace>>

-----------------------------------------------------------------------------
(* Bounds of the model. *)

\* The longest sequence of direct Agent.step calls after a reset.
MaxTrace == 3

\* The largest max_steps handed to train_episode.
MaxSteps == 2

\* The most positions visited_cells may hold before a new episode starts.
MaxVisited == 4

\* The most update_q_table and choose_action calls made directly in one run.
MaxCalls == 2

\* The (size, obstacle density in percent) pairs worlds are constructed with:
\* TrainParams for the runs that train, WorldParams for the runs that only
\* move the agent.
TrainParams == {<<2, 0>>, <<2, 30>>, <<2, 50>>}
WorldParams == TrainParams \cup {<<3, 0>>, <<3, 30>>}

-----------------------------------------------------------------------------
(* Exact rational arithmetic. *)

Abs(n) == IF n < 0 THEN -n ELSE n

\* The rationals <<numerator, denominator>>.
Rationals == Int \X (Nat \ {0})

GCD[a \in Nat, b \in Nat] == IF b = 0 THEN a ELSE GCD[b, a % b]

Norm[n \in Int, d \in Nat \ {0}] ==
    LET g == GCD[Abs(n), d] IN <<n \div g, d \div g>>

RAdd[a \in Rationals, b \in Rationals] ==
    LET g == GCD[a[2], b[2]]
        l == (a[2] \div g) * b[2]
    IN  Norm[a[1] * (l \div a[2]) + b[1] * (l \div b[2]), l]

RNeg(a) == <<-a[1], a[2]>>

RSub[a \in Rationals, b \in Rationals] == RAdd[a, RNeg(b)]

RMul[a \in Rationals, b \in Rationals] ==
    LET g1 == GCD[Abs(a[1]), b[2]]
        g2 == GCD[Abs(b[1]), a[2]]
    IN  Norm[(a[1] \div g1) * (b[1] \div g2), (a[2] \div g2) * (b[2] \div g1)]

RLess(a, b) == RSub[a, b][1] < 0

RAbs(a) == <<Abs(a[1]), a[2]>>

Zero == <<0, 1>>

-----------------------------------------------------------------------------
(* binary64 arithmetic.                                                    *)

\* Natural numbers of any size: little-endian sequences of limbs below
\* LimbBase, without leading zero limbs; <<>> is 0.
LimbBits == 14
LimbBase == 2 ^ LimbBits

Limb(x, i) == IF i <= Len(x) THEN x[i] ELSE 0

RECURSIVE BTrim(_)
BTrim(x) ==
    IF x = <<>> \/ x[Len(x)] # 0 THEN x ELSE BTrim(SubSeq(x, 1, Len(x) - 1))

RECURSIVE BAddFrom(_, _, _, _)
BAddFrom(x, y, i, c) ==
    IF i > Len(x) /\ i > Len(y)
    THEN IF c = 0 THEN <<>> ELSE <<c>>
    ELSE LET s == Limb(x, i) + Limb(y, i) + c
         IN  <<s % LimbBase>> \o BAddFrom(x, y, i + 1, s \div LimbBase)

BAdd(x, y) == BAddFrom(x, y, 1, 0)

\* x - y for x >= y
RECURSIVE BSubFrom(_, _, _, _)
BSubFrom(x, y, i, b) ==
    IF i > Len(x) THEN <<>>
    ELSE LET s == x[i] - Limb(y, i) - b
         IN  <<IF s < 0 THEN s + LimbBase ELSE s>>
                 \o BSubFrom(x, y, i + 1, IF s < 0 THEN 1 ELSE 0)

BSub(x, y) == BTrim(BSubFrom(x, y, 1, 0))

RECURSIVE BLessAt(_, _, _)
BLessAt(x, y, i) ==
    IF i = 0 THEN FALSE
    ELSE IF x[i] # y[i] THEN x[i] < y[i] ELSE BLessAt(x, y, i - 1)

BLess(x, y) == IF Len(x) # Len(y) THEN Len(x) < Len(y) ELSE BLessAt(x, y, Len(x))

\* x * d for a limb d
RECURSIVE BMulLimbFrom(_, _, _, _)
BMulLimbFrom(x, d, i, c) ==
    IF i > Len(x)
    THEN IF c = 0 THEN <<>> ELSE <<c>>
    ELSE LET s == x[i] * d + c
         IN  <<s % LimbBase>> \o BMulLimbFrom(x, d, i + 1, s \div LimbBase)

BMulLimb(x, d) == IF d = 0 THEN <<>> ELSE BMulLimbFrom(x, d, 1, 0)

\* x * LimbBase^n
BShiftLimbs(x, n) == IF x = <<>> THEN <<>> ELSE [i \in 1 .. n |-> 0] \o x

RECURSIVE BMulFrom(_, _, _)
BMulFrom(x, y, i) ==
    IF i > Len(y) THEN <<>>
    ELSE BAdd(BMulLimb(x, y[i]), BShiftLimbs(BMulFrom(x, y, i + 1), 1))

BMul(x, y) == BMulFrom(x, y, 1)

\* the quotient of x by a limb d > 0, limbs 1 .. i, r the remainder so far
RECURSIVE BDivLimbFrom(_, _, _, _)
BDivLimbFrom(x, d, i, r) ==
    IF i = 0 THEN <<>>
    ELSE LET c == r * LimbBase + x[i]
         IN  BDivLimbFrom(x, d, i - 1, c % d) \o <<c \div d>>

BDivLimb(x, d) == BTrim(BDivLimbFrom(x, d, Len(x), 0))

\* x * 2^k and x \div 2^k
BShl(x, k) == BShiftLimbs(BMulLimb(x, 2 ^ (k % LimbBits)), k \div LimbBits)

BShr(x, k) ==
    IF k \div LimbBits >= Len(x) THEN <<>>
    ELSE BDivLimb(SubSeq(x, k \div LimbBits + 1, Len(x)), 2 ^ (k % LimbBits))

RECURSIVE LimbLen(_)
LimbLen(n) == IF n = 0 THEN 0 ELSE 1 + LimbLen(n \div 2)

\* the number of binary digits of x
BitLen(x) == IF x = <<>> THEN 0 ELSE LimbBits * (Len(x) - 1) + LimbLen(x[Len(x)])

\* Dyadic numbers (-1)^s * m * 2^e, exactly.
DZero == [s |-> 0, m |-> <<>>, e |-> 0]

DNeg(a) == IF a.m = <<>> THEN a ELSE [a EXCEPT !.s = 1 - a.s]

DAbs(a) == [a EXCEPT !.s = 0]

DAdd(a, b) ==
    IF a.m = <<>> THEN b
    ELSE IF b.m = <<>> THEN a
    ELSE LET e == IF a.e < b.e THEN a.e ELSE b.e
             x == BShl(a.m, a.e - e)
             y == BShl(b.m, b.e - e)
         IN  IF a.s = b.s THEN [s |-> a.s, m |-> BAdd(x, y), e |-> e]
             ELSE IF x = y THEN DZero
             ELSE IF BLess(y, x) THEN [s |-> a.s, m |-> BSub(x, y), e |-> e]
             ELSE [s |-> b.s, m |-> BSub(y, x), e |-> e]

DSub(a, b) == DAdd(a, DNeg(b))

DMul(a, b) ==
    IF a.m = <<>> \/ b.m = <<>> THEN DZero
    ELSE [s |-> (a.s + b.s) % 2, m |-> BMul(a.m, b.m), e |-> a.e + b.e]

DLess(a, b) == DSub(a, b).s = 1

\* binary64 values are the dyadic numbers with a 53-digit m (and zero; the
\* sign of zero, subnormal numbers, infinities and NaN are not represented:
\* the Q-values stay between 2^-200 and 2^7 in magnitude).
Precision == 53

\* round to nearest, ties to even
Round64(d) ==
    IF d.m = <<>> THEN DZero
    ELSE LET n == BitLen(d.m)
         IN  IF n <= Precision
             THEN [s |-> d.s, m |-> BShl(d.m, Precision - n), e |-> d.e - (Precision - n)]
             ELSE LET k == n - Precision
                      q == BShr(d.m, k)
                      r == BSub(d.m, BShl(q, k))
                      half == BShl(<<1>>, k - 1)
                      up == BLess(half, r) \/ (r = half /\ q[1] % 2 = 1)
                      q1 == IF up THEN BAdd(q, <<1>>) ELSE q
                  IN  IF BitLen(q1) > Precision
                      THEN [s |-> d.s, m |-> BShr(q1, 1), e |-> d.e + k + 1]
                      ELSE [s |-> d.s, m |-> q1, e |-> d.e + k]

FAdd(a, b) == Round64(DAdd(a, b))
FSub(a, b) == Round64(DSub(a, b))
FMul(a, b) == Round64(DMul(a, b))

\* the binary64 value of the decimal literal n/d (d a limb), correctly rounded:
\* the quotient to 70 binary places, with a last digit set when it is inexact
Literal(n, d) ==
    LET x == BShl(<<Abs(n)>>, 70)
        q == BDivLimb(x, d)
        inexact == BMulLimb(q, d) # x
    IN  IF n = 0 THEN DZero
        ELSE Round64([s |-> IF n < 0 THEN 1 ELSE 0,
                      m |-> BAdd(BShl(q, 1), IF inexact THEN <<1>> ELSE <<>>),
                      e |-> -71])

\* float(n) for an integer 0 <= n < LimbBase
FloatOfInt(n) == Round64([s |-> 0, m |-> IF n = 0 THEN <<>> ELSE <<n>>, e |-> 0])

\* The integer a sequence of limbs stands for.
RECURSIVE BValue(_)
BValue(x) == IF x = <<>> THEN 0 ELSE x[1] + LimbBase * BValue(Tail(x))

\* int(x) for a binary64 x >= 0: the digits after the point are dropped
IntOfFloat(x) ==
    IF x.m = <<>> THEN 0
    ELSE IF x.e >= 0 THEN BValue(BShl(x.m, x.e))
    ELSE BValue(BShr(x.m, -x.e))

-----------------------------------------------------------------------------
(* World (environment/world.py). *)

EMPTY == 0
OBSTACLE == 1
AGENT == 2
GOAL == 3

Cells(sz) == (0 .. sz - 1) \X (0 .. sz - 1)

manhattan_distance(pos1, pos2) == Abs(pos1[1] - pos2[1]) + Abs(pos1[2] - pos2[2])

\* The obstacle count rounded to the nearest integer, halves to the even one.
num_obstacles_rounded(sz, pct) ==
    LET q == (sz * sz * pct) \div 100
        r == (sz * sz * pct) % 100
    IN  IF r > 50 \/ (r = 50 /\ q % 2 = 1) THEN q + 1 ELSE q

\* num_obstacles = int(size * size * obstacle_density): the density is the
\* binary64 number written pct/100, the product is rounded to binary64 and
\* then cut to an integer.
num_obstacles(sz, pct) == IntOfFloat(FMul(FloatOfInt(sz * sz), Literal(pct, 100)))

\* min_distance = max(3, size // 3)
min_distance(sz) == IF sz \div 3 > 3 THEN sz \div 3 ELSE 3

\* The empty cells taken to be all cells.
valid_positions_all(sz, obs) == Cells(sz)

\* The cells left empty once the obstacles obs are placed.
valid_positions(sz, obs) == Cells(sz) \ obs

\* The test for enough empty cells asking for one cell more.
enough_positions_strict(valid) == Cardinality(valid) > 2

\* not len(valid_positions) < 2
enough_positions(valid) == ~(Cardinality(valid) < 2)

\* The goal picked from all the remaining cells.
goal_candidates_any(sz, obs, start) == valid_positions(sz, obs) \ {start}

\* The cells World.reset may pick the goal from, the start being chosen.
goal_candidates(sz, obs, start) ==
    LET rest == valid_positions(sz, obs) \ {start}
        far_positions == {p \in rest : manhattan_distance(start, p) >= min_distance(sz)}
    IN  IF far_positions # {} THEN far_positions ELSE rest

\* The grid World.reset leaves: obstacles, then the Agent and Goal markers.
grid_of(sz, obs, start, goal) ==
    [c \in Cells(sz) |->
        IF c = goal THEN GOAL
        ELSE IF c = start THEN AGENT
        ELSE IF c \in obs THEN OBSTACLE
        ELSE EMPTY]

\* The subsets of S with k elements.
RECURSIVE KSubsets(_, _)
KSubsets(S, k) ==
    IF k = 0 THEN {{}}
    ELSE IF k > Cardinality(S) THEN {}
    ELSE LET x == CHOOSE y \in S : TRUE
         IN  KSubsets(S \ {x}, k) \cup {T \cup {x} : T \in KSubsets(S \ {x}, k - 1)}

\* random.sample(range(size * size), num_obstacles), as cells
obstacle_samples(sz, pct) == KSubsets(Cells(sz), num_obstacles(sz, pct))

\* Every world World(size, density) can construct; none when reset raises
\* for want of two empty cells.
WorldReset(sz, pct) ==
    { [size |-> sz, obstacles |-> t[1], start_position |-> t[2],
       goal_position |-> t[3], grid |-> grid_of(sz, t[1], t[2], t[3])] :
        t \in UNION { UNION { { <<obs, start, goal>> :
                                   goal \in goal_candidates(sz, obs, start) } :
                               start \in valid_positions(sz, obs) } :
                       obs \in { o \in obstacle_samples(sz, pct) :
                                     enough_positions(valid_positions(sz, o)) } } }

\* is_obstacle without the bounds check: numpy counts a negative index from
\* the end.
is_obstacle_wrapping(pos) == grid[<<pos[1] % size, pos[2] % size>>] = OBSTACLE

is_obstacle(pos) ==
    IF ~(0 <= pos[1] /\ pos[1] < size /\ 0 <= pos[2] /\ pos[2] < size)
    THEN FALSE
    ELSE grid[pos] = OBSTACLE

-----------------------------------------------------------------------------
(* QLearningAgent (agent/q_learning_agent.py). *)

Actions == 0 .. 3        \* 0=Forward, 1=Turn Right, 2=Turn Left, 3=Backward
Directions == 0 .. 3     \* 0=North, 1=East, 2=South, 3=West

get_state(pos, dir) == <<pos[1], pos[2], dir>>

\* is_valid_position without its obstacle check.
is_valid_position_no_obstacle(pos) ==
    ~(pos[1] < 0 \/ pos[1] >= size \/ pos[2] < 0 \/ pos[2] >= size)

is_valid_position(pos) ==
    IF pos[1] < 0 \/ pos[1] >= size \/ pos[2] < 0 \/ pos[2] >= size
    THEN FALSE
    ELSE IF is_obstacle(pos) THEN FALSE
    ELSE TRUE

\* The cell one step ahead of pos for an agent facing dir.
forward_cell(pos, dir) ==
    CASE dir = 0 -> <<pos[1] - 1, pos[2]>>
      [] dir = 1 -> <<pos[1], pos[2] + 1>>
      [] dir = 2 -> <<pos[1] + 1, pos[2]>>
      [] dir = 3 -> <<pos[1], pos[2] - 1>>
      [] OTHER -> pos

\* The cell one step behind pos for an agent facing dir.
backward_cell(pos, dir) ==
    CASE dir = 0 -> <<pos[1] + 1, pos[2]>>
      [] dir = 1 -> <<pos[1], pos[2] - 1>>
      [] dir = 2 -> <<pos[1] - 1, pos[2]>>
      [] dir = 3 -> <<pos[1], pos[2] + 1>>
      [] OTHER -> pos

\* turn_right without the wrap-around.
turn_right_no_wrap(dir) == dir + 1

turn_right(dir) == (dir + 1) % 4

\* turn_left without the wrap-around.
turn_left_no_wrap(dir) == dir - 1

turn_left(dir) == (dir - 1) % 4

\* self.position after the action is executed, before the validity check.
moved_position(pos, dir, action) ==
    CASE action = 0 -> forward_cell(pos, dir)
      [] action = 3 -> backward_cell(pos, dir)
      [] OTHER -> pos

\* self.direction after the action is executed.
moved_direction(dir, action) ==
    CASE action = 1 -> turn_right(dir)
      [] action = 2 -> turn_left(dir)
      [] OTHER -> dir

InvalidReward == <<-1, 1>>

\* The goal reward of the unused _calculate_reward.
GoalRewardCalculated == <<100, 1>>

GoalReward == <<10, 1>>
StepCost == <<-1, 10>>

\* What step(action) leaves and returns for an agent at pos facing dir.
step_outcome(pos, dir, action) ==
    LET cand == moved_position(pos, dir, action)
        ndir == moved_direction(dir, action)
    IN  IF ~is_valid_position(cand)
        THEN [position |-> pos, direction |-> ndir,
              reward |-> InvalidReward, done |-> FALSE]
        ELSE IF cand = goal_position
        THEN [position |-> cand, direction |-> ndir,
              reward |-> GoalReward, done |-> TRUE]
        ELSE [position |-> cand, direction |-> ndir,
              reward |-> StepCost, done |-> FALSE]

\* self.q_table[state] of the defaultdict: the table with the state's entry
\* created, all zero, when it had none.
ZeroRow == [a \in Actions |-> Zero]

\* A lookup that creates the state's entry and clears the values of the others.
q_insert_clearing(qt, state) ==
    IF state \in DOMAIN qt THEN qt
    ELSE [k \in DOMAIN qt \cup {state} |-> ZeroRow]

q_insert(qt, state) ==
    IF state \in DOMAIN qt THEN qt
    ELSE [k \in DOMAIN qt \cup {state} |-> IF k = state THEN ZeroRow ELSE qt[k]]

\* np.max of a row of four values.
row_max(row) ==
    CHOOSE m \in {row[a] : a \in Actions} :
        \A b \in Actions : ~RLess(m, row[b])

\* An argmax that returns the last index holding the maximum.
argmax_last(row) ==
    CHOOSE a \in 0 .. 3 :
        /\ \A b \in 0 .. 3 : ~RLess(row[a], row[b])
        /\ \A b \in 0 .. 3 : b > a => RLess(row[b], row[a])

\* np.argmax of a row: the first index holding the maximum.
argmax(row) ==
    CHOOSE a \in Actions :
        /\ row[a] = row_max(row)
        /\ \A b \in Actions : b < a => row[b] # row_max(row)

LearningRate == <<1, 10>>      \* learning_rate = 0.1
DiscountFactor == <<9, 10>>    \* discount_factor = 0.9

\* new_q with the correction subtracted instead of added.
new_q_wrong_sign(current_q, reward, max_next_q) ==
    RSub[current_q,
         RMul[LearningRate,
              RSub[RAdd[reward, RMul[DiscountFactor, max_next_q]], current_q]]]

\* new_q of update_q_table.
new_q(current_q, reward, max_next_q) ==
    RAdd[current_q,
         RMul[LearningRate,
              RSub[RAdd[reward, RMul[DiscountFactor, max_next_q]], current_q]]]

\* update_q_table that takes the maximum of next_state also when done.
update_q_table_ignoring_done(qt, state, action, reward, next_state, dn) ==
    LET qt1 == q_insert(q_insert(qt, state), next_state)
    IN  [qt1 EXCEPT ![state][action] =
            new_q(qt1[state][action], reward, row_max(qt1[next_state]))]

\* The table update_q_table(state, action, reward, next_state, done) leaves.
update_q_table(qt, state, action, reward, next_state, dn) ==
    LET qt1 == q_insert(qt, state)
        current_q == qt1[state][action]
        qt2 == IF ~dn THEN q_insert(qt1, next_state) ELSE qt1
        max_next_q == IF ~dn THEN row_max(qt2[next_state]) ELSE Zero
    IN  [qt2 EXCEPT ![state][action] = new_q(current_q, reward, max_next_q)]

-----------------------------------------------------------------------------
(* The record of a completed call.  op names the operation; action, state, *)
(* next_state, reward and done are its arguments or results as the         *)
(* operation has them; q is the Q-table the call found, explore whether    *)
(* choose_action took the random branch, steps what train_episode returned *)
(* (in SpecBinary64, the number of update_q_table calls made so far).      *)

Call(op, action, state, next_state, reward, dn, q, explore, n) ==
    [op |-> op, action |-> action, state |-> state, next_state |-> next_state,
     reward |-> reward, done |-> dn, q |-> q, explore |-> explore, steps |-> n]

Last == trace[Len(trace)]

\* A reset that leaves the direction as it was.
reset_pose_keeping_direction(pos, dir) == [position |-> start_position, direction |-> dir]

\* The pose reset() leaves an agent that stood at pos facing dir in.
reset_pose(pos, dir) == [position |-> start_position, direction |-> 0]

ResetCall(pos, dir, qt) ==
    Call("reset", -1, get_state(pos, dir),
         get_state(reset_pose(pos, dir).position, reset_pose(pos, dir).direction),
         Zero, FALSE, qt, FALSE, 0)

StepCall(pos, dir, qt, action) ==
    LET out == step_outcome(pos, dir, action)
    IN  Call("step", action, get_state(pos, dir),
             get_state(out.position, out.direction), out.reward, out.done,
             qt, FALSE, 0)

-----------------------------------------------------------------------------
(* The module-level state of the interface layer (main.py).                *)

\* Python's None
None == << >>

\* A list of its own, and the list that is the Trainer's list of that name:
\* get_current_path and get_visited_cells return the list itself, no copy.
OwnList(items) == [shared |-> FALSE, items |-> items]
TrainerList == [shared |-> TRUE, items |-> << >>]

\* The training_status dictionary main.py starts with; agent_position and
\* agent_direction are the keys /training_status adds, None while absent.
NewTrainingStatus ==
    [completed |-> FALSE, current_episode |-> 0, total_episodes |-> 0,
     training_data |-> None, current_path |-> OwnList(<< >>),
     visited_cells |-> OwnList(<< >>), paused |-> FALSE,
     agent_position |-> None, agent_direction |-> None]

\* No thread: training_thread is None, or the thread has ended.
NoThread == [alive |-> FALSE, pc |-> "none", episode |-> 0, episodes |-> 0]

\* No handler that runs the Trainer is under way.
NoRequest == [handler |-> "none", pc |-> "none", episode |-> 0, episodes |-> 0]

InitInterface ==
    /\ training_status = NewTrainingStatus
    /\ training_thread = NoThread
    /\ request = NoRequest
    /\ requests = 0

-----------------------------------------------------------------------------
(* The state after World(size, density), QLearningAgent(world) and         *)
(* Trainer(agent, world) are constructed.                                  *)

InitWith(params) ==
    /\ \E p \in params : \E w \in WorldReset(p[1], p[2]) :
          /\ size = w.size
          /\ obstacle_density = p[2]
          /\ grid = w.grid
          /\ obstacles = w.obstacles
          /\ start_position = w.start_position
          /\ goal_position = w.goal_position
          /\ position = w.start_position
          /\ trace = << Call("reset", -1, <<w.start_position[1], w.start_position[2], 0>>,
                             <<w.start_position[1], w.start_position[2], 0>>,
                             Zero, FALSE, [k \in {} |-> ZeroRow], FALSE, 0) >>
    /\ direction = 0
    /\ q_table = [k \in {} |-> ZeroRow]
    /\ InitInterface
    /\ pc = "idle"
    /\ max_steps = 0
    /\ steps = 0
    /\ total_reward = Zero
    /\ done = FALSE
    /\ path = << >>
    /\ current_path = << >>
    /\ visited_cells = << >>

Init == InitWith(WorldParams)

\* QLearningAgent.reset
AgentReset ==
    /\ pc = "idle"
    /\ Len(trace) <= MaxTrace
    /\ position' = reset_pose(position, direction).position
    /\ direction' = reset_pose(position, direction).direction
    /\ trace' = Append(trace, ResetCall(position, direction, q_table))
    /\ UNCHANGED <<worldVars, q_table, trainVars>>

\* QLearningAgent.step(action)
AgentStep(action) ==
    /\ pc = "idle"
    /\ Len(trace) <= MaxTrace
    /\ LET out == step_outcome(position, direction, action)
       IN  /\ position' = out.position
           /\ direction' = out.direction
    /\ trace' = Append(trace, StepCall(position, direction, q_table, action))
    /\ UNCHANGED <<worldVars, q_table, trainVars>>

Next ==
    \/ AgentReset /\ UNCHANGED apiVars
    \/ \E action \in Actions : AgentStep(action) /\ UNCHANGED apiVars

Spec == Init /\ [][Next]_vars

-----------------------------------------------------------------------------
(* update_q_table and choose_action called on their own, on an agent whose *)
(* world is the obstacle-free 2 x 2 grid with start (0,0) and goal (1,1).  *)

\* The states the calls are made with.
QStates == {<<0, 0, 0>>, <<0, 1, 0>>}

\* The (reward, done) pairs the calls are made with: those step returns.
QOutcomes == {<<InvalidReward, FALSE>>, <<StepCost, FALSE>>, <<GoalReward, TRUE>>}

UpdateIndexes == {i \in 1 .. Len(trace) : trace[i].op = "update"}

InitQ ==
    /\ Init
    /\ size = 2
    /\ obstacles = {}
    /\ start_position = <<0, 0>>
    /\ goal_position = <<1, 1>>

\* QLearningAgent.update_q_table(state, action, reward, next_state, done)
UpdateQTable(state, action, reward, next_state, dn) ==
    /\ pc = "idle"
    /\ Len(trace) <= MaxCalls
    /\ q_table' = update_q_table(q_table, state, action, reward, next_state, dn)
    /\ trace' = Append(trace, Call("update", action, state, next_state, reward, dn,
                                   q_table, FALSE, 0))
    /\ UNCHANGED <<worldVars, position, direction, trainVars>>

\* What choose_action(state) returns and the table it leaves: a random action
\* rand when it explores, else the argmax of the state's entry, which the
\* lookup creates.
choose_action(qt, state, explore, rand) ==
    IF explore
    THEN [action |-> rand, q_table |-> qt]
    ELSE [action |-> argmax(q_insert(qt, state)[state]), q_table |-> q_insert(qt, state)]

\* QLearningAgent.choose_action(state)
ChooseAction(state, explore, rand) ==
    /\ pc = "idle"
    /\ Len(trace) <= MaxCalls
    /\ LET out == choose_action(q_table, state, explore, rand)
       IN  /\ q_table' = out.q_table
           /\ trace' = Append(trace, Call("choose", out.action, state, state, Zero,
                                          FALSE, q_table, explore, 0))
    /\ UNCHANGED <<worldVars, position, direction, trainVars>>

NextQ ==
    \/ \E state \in QStates, action \in Actions, o \in QOutcomes, next_state \in QStates :
          UpdateQTable(state, action, o[1], next_state, o[2]) /\ UNCHANGED apiVars
    \/ \E state \in QStates, explore \in BOOLEAN, rand \in Actions :
          ChooseAction(state, explore, rand) /\ UNCHANGED apiVars

SpecQ == InitQ /\ [][NextQ]_vars

-----------------------------------------------------------------------------
(* update_q_table in binary64, as numpy computes it, called again and      *)
(* again with the arguments of its first call.                             *)

\* The most calls of update_q_table in one such run.
MaxRepeat == 335

LearningRate64 == Literal(1, 10)      \* learning_rate = 0.1
DiscountFactor64 == Literal(9, 10)    \* discount_factor = 0.9

\* The (reward, done) pairs step returns: -1.0, -0.1 and 10.0.
QOutcomes64 ==
    {<<Literal(-1, 1), FALSE>>, <<Literal(-1, 10), FALSE>>, <<Literal(10, 1), TRUE>>}

\* np.zeros(4)
ZeroRow64 == [a \in Actions |-> DZero]

q_insert64(qt, state) ==
    IF state \in DOMAIN qt THEN qt
    ELSE [k \in DOMAIN qt \cup {state} |-> IF k = state THEN ZeroRow64 ELSE qt[k]]

\* np.max of a row of four values.
row_max64(row) ==
    CHOOSE m \in {row[a] : a \in Actions} :
        \A b \in Actions : ~DLess(m, row[b])

\* new_q with the correction subtracted instead of added.
new_q64_wrong_sign(current_q, reward, max_next_q) ==
    FSub(current_q,
         FMul(LearningRate64,
              FSub(FAdd(reward, FMul(DiscountFactor64, max_next_q)), current_q)))

\* new_q of update_q_table, each operation rounded.
new_q64(current_q, reward, max_next_q) ==
    FAdd(current_q,
         FMul(LearningRate64,
              FSub(FAdd(reward, FMul(DiscountFactor64, max_next_q)), current_q)))

\* The table update_q_table(state, action, reward, next_state, done) leaves.
update_q_table64(qt, state, action, reward, next_state, dn) ==
    LET qt1 == q_insert64(qt, state)
        current_q == qt1[state][action]
        qt2 == IF ~dn THEN q_insert64(qt1, next_state) ELSE qt1
        max_next_q == IF ~dn THEN row_max64(qt2[next_state]) ELSE DZero
    IN  [qt2 EXCEPT ![state][action] = new_q64(current_q, reward, max_next_q)]

\* QLearningAgent.update_q_table(state, action, reward, next_state, done), a
\* call after the first repeating the arguments of the one before.  trace
\* holds the last call only, steps counting the calls made.
UpdateQTable64(state, action, reward, next_state, dn) ==
    /\ pc = "idle"
    /\ Last.op = "update" =>
          /\ Last.steps < MaxRepeat
          /\ state = Last.state
          /\ action = Last.action
          /\ reward = Last.reward
          /\ next_state = Last.next_state
          /\ dn = Last.done
    /\ q_table' = update_q_table64(q_table, state, action, reward, next_state, dn)
    /\ trace' = <<Call("update", action, state, next_state, reward, dn, q_table, FALSE,
                       IF Last.op = "update" THEN Last.steps + 1 ELSE 1)>>
    /\ UNCHANGED <<worldVars, position, direction, trainVars>>

Next64 ==
    \E state \in QStates, action \in Actions, o \in QOutcomes64, next_state \in QStates :
        UpdateQTable64(state, action, o[1], next_state, o[2]) /\ UNCHANGED apiVars

SpecBinary64 == InitQ /\ [][Next64]_vars

-----------------------------------------------------------------------------
(* Trainer.train_episode (training/trainer.py), one action per pass of its *)
(* loop.                                                                   *)

\* The loop condition without the step cutoff.
loop_continues_no_cutoff(dn, n, ms) == ~dn

\* The loop condition with the cutoff one step early.
loop_continues_one_short(dn, n, ms) == ~dn /\ n + 1 < ms

\* while not done and steps < max_steps
loop_continues(dn, n, ms) == ~dn /\ n < ms

\* The path of a new episode added to the path of the last one.
new_current_path_kept(cp, pos) == Append(cp, pos)

\* self.current_path = [] and the append of the agent's position
new_current_path(cp, pos) == << pos >>

\* train_episode up to its loop: the agent is reset, the locals are
\* initialised and the start position opens both paths.
TrainBegin(ms) ==
    /\ pc = "idle"
    /\ Len(visited_cells) + ms + 1 <= MaxVisited
    /\ position' = reset_pose(position, direction).position
    /\ direction' = reset_pose(position, direction).direction
    /\ total_reward' = Zero
    /\ steps' = 0
    /\ done' = FALSE
    /\ max_steps' = ms
    /\ current_path' = new_current_path(current_path, reset_pose(position, direction).position)
    /\ visited_cells' = Append(visited_cells, reset_pose(position, direction).position)
    /\ trace' = Append(trace, ResetCall(position, direction, q_table))
    /\ pc' = "loop"
    /\ UNCHANGED <<worldVars, q_table, path>>

\* One pass of the loop: choose_action, step, the two appends,
\* update_q_table and the counters.
TrainIter(explore, rand) ==
    /\ pc = "loop"
    /\ loop_continues(done, steps, max_steps)
    /\ \E state \in {get_state(position, direction)} :
       \E ch \in {choose_action(q_table, state, explore, rand)} :
       \E out \in {step_outcome(position, direction, ch.action)} :
       \E next_state \in {get_state(out.position, out.direction)} :
           /\ position' = out.position
           /\ direction' = out.direction
           /\ current_path' = Append(current_path, out.position)
           /\ visited_cells' = Append(visited_cells, out.position)
           /\ q_table' = update_q_table(ch.q_table, state, ch.action, out.reward,
                                        next_state, out.done)
           /\ total_reward' = RAdd[total_reward, out.reward]
           /\ steps' = steps + 1
           /\ done' = out.done
           /\ trace' = trace \o
                 << Call("choose", ch.action, state, state, Zero, FALSE, q_table, explore, 0),
                    StepCall(position, direction, ch.q_table, ch.action),
                    Call("update", ch.action, state, next_state, out.reward, out.done,
                         ch.q_table, FALSE, 0) >>
    /\ UNCHANGED <<worldVars, pc, max_steps, path>>

\* The loop is left and train_episode returns (total_reward, steps).
TrainReturn ==
    /\ pc = "loop"
    /\ ~loop_continues(done, steps, max_steps)
    /\ pc' = "idle"
    /\ trace' = Append(trace, Call("train_episode", -1, get_state(position, direction),
                                   get_state(position, direction), total_reward, done,
                                   q_table, FALSE, steps))
    /\ UNCHANGED <<worldVars, agentVars, max_steps, steps, total_reward, done,
                   path, current_path, visited_cells>>

TrainLoop == \E explore \in BOOLEAN, rand \in Actions : TrainIter(explore, rand)

\* A pass of the loop, and the return, of a train_episode that no request
\* handler and no thread of the interface layer has called.
TrainLoopAlone == TrainLoop /\ UNCHANGED apiVars
TrainReturnAlone == TrainReturn /\ UNCHANGED apiVars

NextTrain ==
    \/ \E ms \in 0 .. MaxSteps : TrainBegin(ms) /\ UNCHANGED apiVars
    \/ TrainLoopAlone
    \/ TrainReturnAlone

InitTrain == InitWith(TrainParams)

SpecTrain == InitTrain /\ [][NextTrain]_vars

\* train_episode runs on a thread that keeps running: a pass of the loop or the
\* return that is due is taken.
FairSpecTrain == SpecTrain /\ WF_vars(TrainLoopAlone) /\ WF_vars(TrainReturnAlone)

-----------------------------------------------------------------------------
(* Trainer.find_optimal_path (training/trainer.py), one action per pass of *)
(* its loop, on Q-tables that update_q_table calls have prepared.          *)

\* The most update_q_table calls that prepare the table.
MaxTeach == 3

\* The largest max_steps handed to find_optimal_path.
MaxPathSteps == 5

\* The worlds find_optimal_path runs on.
PathParams == {<<2, 0>>, <<2, 30>>}

\* The first state on the greedy route from s that qt has no entry for; <<>>
\* when the route arrives on the goal, or makes n steps, before it meets one.
RECURSIVE route_end(_, _, _)
route_end(qt, s, n) ==
    IF s \notin DOMAIN qt THEN s
    ELSE IF n = 0 THEN <<>>
    ELSE LET out == step_outcome(<<s[1], s[2]>>, s[3], argmax(qt[s]))
         IN  IF out.done THEN <<>>
             ELSE route_end(qt, get_state(out.position, out.direction), n - 1)

\* update_q_table(state, action, 10.0, state, True), state being where the
\* greedy route from the start pose leaves the entries of the table: the call
\* makes action the greedy one there, Forward being the greedy action of a
\* state without an entry.
TeachRoute(action) ==
    /\ pc = "idle"
    /\ Len(trace) <= MaxTeach
    /\ route_end(q_table, get_state(start_position, 0), MaxTeach) # <<>>
    /\ \E state \in {route_end(q_table, get_state(start_position, 0), MaxTeach)} :
          /\ q_table' = update_q_table(q_table, state, action, GoalReward, state, TRUE)
          /\ trace' = Append(trace, Call("update", action, state, state, GoalReward, TRUE,
                                         q_table, FALSE, 0))
    /\ UNCHANGED <<worldVars, position, direction, trainVars>>

\* The loop check taken from the second step on.
path_stuck_from_second(p, n) == n > 1 /\ p[Len(p)] = p[Len(p) - 2]

\* The loop check left out.
path_stuck_never(p, n) == FALSE

\* if steps > 2 and np.array_equal(path[-1], path[-3])
path_stuck(p, n) == n > 2 /\ p[Len(p)] = p[Len(p) - 2]

\* find_optimal_path up to its loop: the agent is reset and its position
\* opens the path.
PathBegin(ms) ==
    /\ pc = "idle"
    /\ position' = reset_pose(position, direction).position
    /\ direction' = reset_pose(position, direction).direction
    /\ path' = << reset_pose(position, direction).position >>
    /\ steps' = 0
    /\ done' = FALSE
    /\ max_steps' = ms
    /\ trace' = Append(trace, ResetCall(position, direction, q_table))
    /\ pc' = "path"
    /\ UNCHANGED <<worldVars, q_table, total_reward, current_path, visited_cells>>

\* One pass of the loop: the argmax of the state's entry, which the lookup
\* creates, the step, the append, the counter and the loop check.
PathIter ==
    /\ pc = "path"
    /\ loop_continues(done, steps, max_steps)
    /\ \E state \in {get_state(position, direction)} :
       \E qt \in {q_insert(q_table, state)} :
       \E action \in {argmax(qt[state])} :
       \E out \in {step_outcome(position, direction, action)} :
           /\ q_table' = qt
           /\ position' = out.position
           /\ direction' = out.direction
           /\ path' = Append(path, out.position)
           /\ steps' = steps + 1
           /\ done' = out.done
           /\ pc' = IF path_stuck(Append(path, out.position), steps + 1)
                    THEN "break" ELSE "path"
           /\ trace' = Append(trace, StepCall(position, direction, qt, action))
    /\ UNCHANGED <<worldVars, max_steps, total_reward, current_path, visited_cells>>

\* The loop is left, by its condition or by the break, and find_optimal_path
\* returns the path.
PathReturn ==
    /\ pc = "break" \/ (pc = "path" /\ ~loop_continues(done, steps, max_steps))
    /\ pc' = "idle"
    /\ trace' = Append(trace, Call("find_optimal_path", -1, get_state(position, direction),
                                   get_state(position, direction), Zero, done,
                                   q_table, FALSE, steps))
    /\ UNCHANGED <<worldVars, agentVars, max_steps, steps, total_reward, done,
                   path, current_path, visited_cells>>

\* find_optimal_path run on its own, by no request handler and no thread.
PathIterAlone == PathIter /\ UNCHANGED apiVars
PathReturnAlone == PathReturn /\ UNCHANGED apiVars

NextPath ==
    \/ \E action \in Actions : TeachRoute(action) /\ UNCHANGED apiVars
    \/ \E ms \in 0 .. MaxPathSteps :
          Len(trace) <= MaxTeach + 1 /\ PathBegin(ms) /\ UNCHANGED apiVars
    \/ PathIterAlone
    \/ PathReturnAlone

InitPath == InitWith(PathParams)

SpecPath == InitPath /\ [][NextPath]_vars

-----------------------------------------------------------------------------
(* World(size, obstacle_density): the constructor and the reset it calls.  *)

\* The (size, obstacle density in percent) pairs worlds are generated with.
GenParams ==
    {<<1, 0>>, <<2, 0>>, <<2, 30>>, <<2, 40>>, <<2, 50>>, <<2, 80>>, <<2, 100>>,
     <<3, 0>>, <<3, 30>>, <<3, 90>>, <<4, 0>>, <<10, 0>>}

\* The grid once the obstacles are placed, before start and goal are.
obstacle_grid(sz, obs) == [c \in Cells(sz) |-> IF c \in obs THEN OBSTACLE ELSE EMPTY]

\* The attributes World.__init__ sets before it calls reset; there is no agent.
InitGen ==
    /\ \E p \in GenParams : size = p[1] /\ obstacle_density = p[2]
    /\ grid = None
    /\ obstacles = None
    /\ start_position = None
    /\ goal_position = None
    /\ position = None
    /\ direction = 0
    /\ q_table = [k \in {} |-> ZeroRow]
    /\ InitInterface
    /\ pc = "new"
    /\ max_steps = 0
    /\ steps = 0
    /\ total_reward = Zero
    /\ done = FALSE
    /\ path = << >>
    /\ current_path = << >>
    /\ visited_cells = << >>
    /\ trace = << Call("World", -1, None, None, Zero, FALSE, [k \in {} |-> ZeroRow], FALSE, 0) >>

\* World.reset raises: the obstacles are placed and fewer than two cells are
\* left empty; start and goal stay what they were.
WorldResetRaises ==
    /\ \E obs \in obstacle_samples(size, obstacle_density) :
          /\ ~enough_positions(valid_positions(size, obs))
          /\ grid' = obstacle_grid(size, obs)
          /\ obstacles' = obs
    /\ pc' = "raised"
    /\ UNCHANGED <<start_position, goal_position>>

\* World.reset returns: obstacles, start and goal are placed.
WorldResetReturns ==
    /\ \E w \in WorldReset(size, obstacle_density) :
          /\ grid' = w.grid
          /\ obstacles' = w.obstacles
          /\ start_position' = w.start_position
          /\ goal_position' = w.goal_position
    /\ pc' = "idle"

\* self.reset() of World.__init__
WorldConstruct ==
    /\ pc = "new"
    /\ WorldResetRaises \/ WorldResetReturns
    /\ trace' = Append(trace, Call("World.reset", -1, None, None, Zero, FALSE, q_table,
                                   FALSE, 0))
    /\ UNCHANGED <<size, obstacle_density, agentVars, max_steps, steps, total_reward,
                   done, path, current_path, visited_cells>>

NextGen == WorldConstruct /\ UNCHANGED apiVars

SpecGen == InitGen /\ [][NextGen]_vars

-----------------------------------------------------------------------------
(* The other methods of World called on a world that an agent and a        *)
(* trainer work in, between their calls.                                   *)

\* The most calls of World methods made in one run.
MaxWorldCalls == 2

\* The actions of World.step
UP == 0
RIGHT == 1
DOWN == 2
LEFT == 3

\* What World.step(action) leaves and returns: it takes start_position for the
\* position of the agent and assigns the new position to it.
world_step(g, start, action) ==
    LET row == start[1]
        col == start[2]
        new == IF action = UP /\ row > 0 THEN <<row - 1, col>>
               ELSE IF action = RIGHT /\ col < size - 1 THEN <<row, col + 1>>
               ELSE IF action = DOWN /\ row < size - 1 THEN <<row + 1, col>>
               ELSE IF action = LEFT /\ col > 0 THEN <<row, col - 1>>
               ELSE <<row, col>>
    IN  IF g[new] = OBSTACLE
        THEN [grid |-> g, start_position |-> start,
              reward |-> <<-1, 1>>, done |-> FALSE]
        ELSE IF new = goal_position
        THEN [grid |-> [g EXCEPT ![start] = EMPTY], start_position |-> new,
              reward |-> <<10, 1>>, done |-> TRUE]
        ELSE [grid |-> [[g EXCEPT ![start] = EMPTY] EXCEPT ![new] = AGENT],
              start_position |-> new, reward |-> <<-1, 10>>, done |-> FALSE]

\* World.step(action)
WorldStep(action) ==
    /\ pc = "idle"
    /\ Len(trace) <= MaxWorldCalls
    /\ LET out == world_step(grid, start_position, action)
       IN  /\ grid' = out.grid
           /\ start_position' = out.start_position
           /\ trace' = Append(trace, Call("World.step", action, start_position,
                                          out.start_position, out.reward, out.done,
                                          q_table, FALSE, 0))
    /\ UNCHANGED <<size, obstacle_density, obstacles, goal_position, agentVars, trainVars>>

\* The grid reset_agent_position leaves: the first Agent marker found, rows
\* first, is cleared and start is marked unless the goal is there.
reset_agent_position(g, start) ==
    LET agents == {c \in Cells(size) : g[c] = AGENT}
        agent_pos == CHOOSE c \in agents :
                        \A d \in agents : c[1] < d[1] \/ (c[1] = d[1] /\ c[2] <= d[2])
        g1 == IF agents # {} THEN [g EXCEPT ![agent_pos] = EMPTY] ELSE g
    IN  IF start # goal_position THEN [g1 EXCEPT ![start] = AGENT] ELSE g1

\* World.reset_agent_position()
WorldResetAgentPosition ==
    /\ pc = "idle"
    /\ Len(trace) <= MaxWorldCalls
    /\ grid' = reset_agent_position(grid, start_position)
    /\ trace' = Append(trace, Call("World.reset_agent_position", -1, start_position,
                                   start_position, Zero, FALSE, q_table, FALSE, 0))
    /\ UNCHANGED <<size, obstacle_density, obstacles, start_position, goal_position,
                   agentVars, trainVars>>

\* World.is_obstacle(pos), called from outside; done holds what it returned.
WorldIsObstacle(pos) ==
    /\ pc = "idle"
    /\ Len(trace) <= MaxWorldCalls
    /\ trace' = Append(trace, Call("World.is_obstacle", -1, pos, pos, Zero,
                                   is_obstacle(pos), q_table, FALSE, 0))
    /\ UNCHANGED <<worldVars, agentVars, trainVars>>

\* World.get_state(): a copy of the grid is returned.
WorldGetState ==
    /\ pc = "idle"
    /\ Len(trace) <= MaxWorldCalls
    /\ trace' = Append(trace, Call("World.get_state", -1, grid, grid, Zero, FALSE,
                                   q_table, FALSE, 0))
    /\ UNCHANGED <<worldVars, agentVars, trainVars>>

\* World.reset() called again on the constructed world; the agent stays
\* where it is.
WorldResetAgain ==
    /\ pc = "idle"
    /\ Len(trace) <= MaxWorldCalls
    /\ WorldResetReturns
    /\ trace' = Append(trace, Call("World.reset", -1, None, None, Zero, FALSE, q_table,
                                   FALSE, 0))
    /\ UNCHANGED <<size, obstacle_density, agentVars, max_steps, steps, total_reward,
                   done, path, current_path, visited_cells>>

\* The positions is_obstacle is asked about: the cells of the 2 x 2 grid and
\* places off it on each side.
ProbePositions ==
    {<<0, 0>>, <<0, 1>>, <<1, 0>>, <<1, 1>>, <<0, -1>>, <<-1, 0>>, <<2, 1>>, <<1, 2>>}

\* The largest max_steps handed to train_episode and find_optimal_path here.
MaxWorldSteps == 1

NextWorld ==
    \/ \E action \in {UP, RIGHT, DOWN, LEFT} : WorldStep(action) /\ UNCHANGED apiVars
    \/ WorldResetAgentPosition /\ UNCHANGED apiVars
    \/ \E pos \in ProbePositions : WorldIsObstacle(pos) /\ UNCHANGED apiVars
    \/ WorldGetState /\ UNCHANGED apiVars
    \/ WorldResetAgain /\ UNCHANGED apiVars
    \/ AgentReset /\ UNCHANGED apiVars
    \/ \E action \in Actions : AgentStep(action) /\ UNCHANGED apiVars
    \/ \E ms \in 0 .. MaxWorldSteps :
          Len(trace) <= MaxTrace /\ TrainBegin(ms) /\ UNCHANGED apiVars
    \/ TrainLoopAlone
    \/ TrainReturnAlone
    \/ \E ms \in 0 .. MaxWorldSteps :
          Len(trace) <= MaxTrace /\ PathBegin(ms) /\ UNCHANGED apiVars
    \/ PathIterAlone
    \/ PathReturnAlone

\* The world is a 2 x 2 grid with one obstacle and the start in the corner.
InitWorld ==
    /\ InitWith({<<2, 30>>})
    /\ start_position = <<0, 0>>

SpecWorld == InitWorld /\ [][NextWorld]_vars

-----------------------------------------------------------------------------
(* One agent through any sequence of reset, step, update_q_table,          *)
(* train_episode and find_optimal_path calls.                              *)

\* The agent's world is the obstacle-free 2 x 2 grid with the start in the
\* corner.
InitAgent ==
    /\ InitWith({<<2, 0>>})
    /\ start_position = <<0, 0>>

\* The most calls made on the agent before the episodes that follow them.
MaxAgentCalls == 2

NextAgent ==
    \/ Len(trace) <= MaxAgentCalls /\ AgentReset /\ UNCHANGED apiVars
    \/ \E action \in Actions :
          Len(trace) <= MaxAgentCalls /\ AgentStep(action) /\ UNCHANGED apiVars
    \/ \E action \in Actions, o \in QOutcomes :
          /\ UpdateQTable(get_state(position, direction), action, o[1],
                          get_state(start_position, 0), o[2])
          /\ UNCHANGED apiVars
    \/ \E ms \in 0 .. MaxSteps : TrainBegin(ms) /\ UNCHANGED apiVars
    \/ TrainLoopAlone
    \/ TrainReturnAlone
    \/ \E ms \in 0 .. MaxSteps :
          Len(trace) <= MaxAgentCalls /\ PathBegin(ms) /\ UNCHANGED apiVars
    \/ PathIterAlone
    \/ PathReturnAlone

SpecAgent == InitAgent /\ [][NextAgent]_vars

-----------------------------------------------------------------------------
(* The interface layer (main.py) on a world and an agent that /world and   *)
(* /agent have created: the request handlers /train, /training_status,     *)
(* /step, /toggle_pause, /stop_training, /reset_agent and GET /world, and  *)
(* the background thread train_agent_thread, one action per stretch of it  *)
(* between two reads or writes of what the handlers share with it.         *)
(* A handler runs in one piece, except where it runs train_episode or      *)
(* find_optimal_path; these run one at a time, pass by pass.               *)

\* The most requests received in one run.
MaxRequests == 2

\* The most episodes one /train request asks for.
MaxEpisodes == 2

\* The episodes the /train requests ask for: the most with visualize, one
\* without.
EpisodesAsked(visualize) == IF visualize THEN {MaxEpisodes} ELSE {1}

\* The max_steps train_episode and find_optimal_path run with when main.py
\* calls them: their default, 1000 in the source.
DefaultMaxSteps == 1

\* The actions /step is asked for: Forward, Backward and an index that is none.
StepActions == {0, 3, 4}

Ok == 200
BadRequest == 400

\* The record of a request: op is the handler, steps the status of its
\* response, explore the visualize flag of /train.
Handled(op, action, state, next_state, reward, dn, flag, code) ==
    Call(op, action, state, next_state, reward, dn, q_table, flag, code)

Pose == get_state(position, direction)

\* training_status once the Trainer's current_path, or the Trainer itself, is
\* replaced: a list it shared with the Trainer is its own from then on.
keep_path(ts) ==
    IF ts.current_path.shared THEN [ts EXCEPT !.current_path = OwnList(current_path)] ELSE ts

keep_lists(ts) ==
    LET t1 == keep_path(ts)
    IN  IF t1.visited_cells.shared
        THEN [t1 EXCEPT !.visited_cells = OwnList(visited_cells)]
        ELSE t1

\* POST /train
TrainAgent(visualize, episodes) ==
    /\ requests < MaxRequests
    /\ requests' = requests + 1
    /\ IF visualize
       THEN /\ IF training_thread.alive
               THEN /\ trace' = Append(trace, Handled("train_agent", -1, Pose, Pose, Zero,
                                                      FALSE, visualize, BadRequest))
                    /\ UNCHANGED training_thread
               ELSE /\ training_thread' = [alive |-> TRUE, pc |-> "start", episode |-> 0,
                                           episodes |-> episodes]
                    /\ trace' = Append(trace, Handled("train_agent", -1, Pose, Pose, Zero,
                                                      FALSE, visualize, Ok))
            /\ UNCHANGED <<training_status, request, current_path, visited_cells>>
       ELSE \* trainer = Trainer(agent=agent, world=world)
            /\ request = NoRequest
            /\ pc = "idle"
            /\ current_path' = << >>
            /\ visited_cells' = << >>
            /\ training_status' = keep_lists(training_status)
            /\ request' = [handler |-> "train", pc |-> "for", episode |-> 0,
                           episodes |-> episodes]
            /\ trace' = Append(trace, Handled("train_agent", -1, Pose, Pose, Zero,
                                              FALSE, visualize, Ok))
            /\ UNCHANGED training_thread
    /\ UNCHANGED <<worldVars, agentVars, pc, max_steps, steps, total_reward, done, path>>

\* train_agent without visualize: trainer.train_episode() of its loop is called.
RequestCall ==
    /\ request.handler = "train"
    /\ request.pc = "for"
    /\ request.episode < request.episodes
    /\ TrainBegin(DefaultMaxSteps)
    /\ request' = [request EXCEPT !.pc = "episode"]
    /\ training_status' = keep_path(training_status)
    /\ UNCHANGED <<training_thread, requests>>

\* train_agent without visualize: the episode returns.
RequestEpisodeReturn ==
    /\ request.pc = "episode"
    /\ TrainReturn
    /\ request' = [request EXCEPT !.pc = "for", !.episode = @ + 1]
    /\ UNCHANGED <<training_status, training_thread, requests>>

\* train_agent without visualize, its loop done, and GET /world:
\* find_optimal_path() is called.
RequestFind ==
    /\ request.handler = "train"
    /\ request.pc = "for"
    /\ request.episode = request.episodes
    /\ PathBegin(DefaultMaxSteps)
    /\ request' = [request EXCEPT !.pc = "path"]
    /\ UNCHANGED <<training_status, training_thread, requests>>

\* GET /world: the agent exists, so find_optimal_path() is called.
GetWorld ==
    /\ requests < MaxRequests
    /\ requests' = requests + 1
    /\ request = NoRequest
    /\ PathBegin(DefaultMaxSteps)
    /\ request' = [handler |-> "world", pc |-> "path", episode |-> 0, episodes |-> 0]
    /\ UNCHANGED <<training_status, training_thread>>

\* find_optimal_path returns and the handler that called it responds.
RequestPathReturn ==
    /\ request.pc = "path"
    /\ PathReturn
    /\ request' = NoRequest
    /\ UNCHANGED <<training_status, training_thread, requests>>

\* train_agent_thread up to its loop: training_status is reset and a Trainer
\* is created. The thread's records hold in steps the episode it is about to
\* train, 0 for this stretch.
ThreadBegin ==
    /\ training_thread.alive
    /\ training_thread.pc = "start"
    /\ pc = "idle"
    /\ training_status' =
          [training_status EXCEPT
              !.completed = FALSE,
              !.current_episode = 0,
              !.total_episodes = training_thread.episodes,
              !.training_data = [episode_rewards |-> << >>, episode_steps |-> << >>],
              !.current_path = OwnList(<< >>),
              !.visited_cells = OwnList(<< >>),
              !.paused = FALSE]
    /\ current_path' = << >>
    /\ visited_cells' = << >>
    /\ training_thread' = [training_thread EXCEPT !.pc = "for"]
    /\ trace' = Append(trace, Handled("train_agent_thread", -1, Pose, Pose, Zero, FALSE,
                                      TRUE, 0))
    /\ UNCHANGED <<worldVars, agentVars, pc, max_steps, steps, total_reward, done, path,
                   request, requests>>

\* The head of the thread's loop: it is left when the episodes are done, the
\* thread returns when training was stopped, else current_episode is set.
ThreadFor ==
    /\ training_thread.alive
    /\ training_thread.pc = "for"
    /\ IF training_thread.episode = training_thread.episodes
       THEN /\ training_thread' = [training_thread EXCEPT !.pc = "find"]
            /\ UNCHANGED training_status
       ELSE IF training_status.completed
       THEN /\ training_thread' = NoThread
            /\ UNCHANGED training_status
       ELSE /\ training_status' =
                  [training_status EXCEPT !.current_episode = training_thread.episode + 1]
            /\ training_thread' = [training_thread EXCEPT !.pc = "while"]
    /\ UNCHANGED <<worldVars, agentVars, trainVars, request, requests, trace>>

\* while training_status["paused"]: the thread goes to sleep when paused and
\* else goes on to train the episode.
ThreadWhile ==
    /\ training_thread.alive
    /\ training_thread.pc = "while"
    /\ IF training_status.paused
       THEN /\ training_thread' = [training_thread EXCEPT !.pc = "sleep"]
            /\ UNCHANGED trace
       ELSE /\ training_thread' = [training_thread EXCEPT !.pc = "call"]
            /\ trace' = Append(trace, Handled("train_agent_thread", -1, Pose, Pose, Zero,
                                              FALSE, TRUE, training_thread.episode + 1))
    /\ UNCHANGED <<worldVars, agentVars, trainVars, training_status, request, requests>>

\* After the sleep of a paused thread: it returns when training was stopped.
ThreadSleep ==
    /\ training_thread.alive
    /\ training_thread.pc = "sleep"
    /\ training_thread' = IF training_status.completed THEN NoThread
                          ELSE [training_thread EXCEPT !.pc = "while"]
    /\ UNCHANGED <<worldVars, agentVars, trainVars, training_status, request, requests,
                   trace>>

\* trainer.train_episode(visualize=visualize) is called.
ThreadCall ==
    /\ training_thread.alive
    /\ training_thread.pc = "call"
    /\ TrainBegin(DefaultMaxSteps)
    /\ training_thread' = [training_thread EXCEPT !.pc = "episode"]
    /\ training_status' = keep_path(training_status)
    /\ UNCHANGED <<request, requests>>

\* The episode returns; its reward and steps are recorded and training_status
\* is given the Trainer's lists.
ThreadEpisodeReturn ==
    /\ training_thread.alive
    /\ training_thread.pc = "episode"
    /\ TrainReturn
    /\ training_status' =
          [training_status EXCEPT
              !.training_data =
                  [episode_rewards |-> Append(@.episode_rewards, total_reward),
                   episode_steps |-> Append(@.episode_steps, steps)],
              !.current_path = TrainerList,
              !.visited_cells = TrainerList]
    /\ training_thread' = [training_thread EXCEPT !.pc = "for", !.episode = @ + 1]
    /\ UNCHANGED <<request, requests>>

\* The loop is done: find_optimal_path() is called.
ThreadFind ==
    /\ training_thread.alive
    /\ training_thread.pc = "find"
    /\ PathBegin(DefaultMaxSteps)
    /\ training_thread' = [training_thread EXCEPT !.pc = "path"]
    /\ UNCHANGED <<training_status, request, requests>>

\* find_optimal_path returns, training is marked completed and the thread ends.
ThreadPathReturn ==
    /\ training_thread.alive
    /\ training_thread.pc = "path"
    /\ PathReturn
    /\ training_status' = [training_status EXCEPT !.completed = TRUE]
    /\ training_thread' = NoThread
    /\ UNCHANGED <<request, requests>>

\* GET /training_status
GetTrainingStatus ==
    /\ requests < MaxRequests
    /\ requests' = requests + 1
    /\ training_status' = [training_status EXCEPT !.agent_position = position,
                                                  !.agent_direction = direction]
    /\ trace' = Append(trace, Handled("get_training_status", -1, Pose, Pose, Zero,
                                      training_status.completed, training_status.paused, Ok))
    /\ UNCHANGED <<worldVars, agentVars, trainVars, training_thread, request>>

\* POST /step: given tells whether the request carries an action.
TakeStep(given, action) ==
    /\ requests < MaxRequests
    /\ requests' = requests + 1
    /\ IF ~given
       THEN /\ trace' = Append(trace, Handled("take_step", -1, Pose, Pose, Zero, FALSE,
                                              FALSE, BadRequest))
            /\ UNCHANGED <<position, direction, training_status, current_path,
                           visited_cells>>
       ELSE LET out == step_outcome(position, direction, action)
            IN  /\ position' = out.position
                /\ direction' = out.direction
                /\ current_path' = IF training_status.current_path.shared
                                   THEN Append(current_path, out.position)
                                   ELSE current_path
                /\ visited_cells' = IF training_status.visited_cells.shared
                                    THEN Append(visited_cells, out.position)
                                    ELSE visited_cells
                /\ training_status' =
                      [training_status EXCEPT
                          !.current_path = IF @.shared THEN @
                                           ELSE OwnList(Append(@.items, out.position)),
                          !.visited_cells = IF @.shared THEN @
                                            ELSE OwnList(Append(@.items, out.position))]
                /\ trace' = trace \o
                      << StepCall(position, direction, q_table, action),
                         Handled("take_step", action, Pose,
                                 get_state(out.position, out.direction), out.reward,
                                 out.done, FALSE, Ok) >>
    /\ UNCHANGED <<worldVars, q_table, pc, max_steps, steps, total_reward, done, path,
                   training_thread, request>>

\* POST /toggle_pause
TogglePause ==
    /\ requests < MaxRequests
    /\ requests' = requests + 1
    /\ IF ~training_thread.alive
       THEN /\ trace' = Append(trace, Handled("toggle_pause", -1, Pose, Pose, Zero,
                                              FALSE, training_status.paused, BadRequest))
            /\ UNCHANGED training_status
       ELSE /\ training_status' = [training_status EXCEPT !.paused = ~@]
            /\ trace' = Append(trace, Handled("toggle_pause", -1, Pose, Pose, Zero,
                                              FALSE, ~training_status.paused, Ok))
    /\ UNCHANGED <<worldVars, agentVars, trainVars, training_thread, request>>

\* POST /stop_training
StopTraining ==
    /\ requests < MaxRequests
    /\ requests' = requests + 1
    /\ IF ~training_thread.alive
       THEN /\ trace' = Append(trace, Handled("stop_training", -1, Pose, Pose, Zero,
                                              FALSE, FALSE, BadRequest))
            /\ UNCHANGED training_status
       ELSE /\ training_status' = [training_status EXCEPT !.paused = FALSE,
                                                          !.completed = TRUE]
            /\ trace' = Append(trace, Handled("stop_training", -1, Pose, Pose, Zero,
                                              TRUE, FALSE, Ok))
    /\ UNCHANGED <<worldVars, agentVars, trainVars, training_thread, request>>

\* POST /reset_agent: world.reset_agent_position() and agent.reset()
ResetAgentPosition ==
    /\ requests < MaxRequests
    /\ requests' = requests + 1
    /\ grid' = reset_agent_position(grid, start_position)
    /\ position' = reset_pose(position, direction).position
    /\ direction' = reset_pose(position, direction).direction
    /\ trace' = trace \o
          << ResetCall(position, direction, q_table),
             Handled("reset_agent_position", -1, Pose, get_state(start_position, 0), Zero,
                     FALSE, FALSE, Ok) >>
    /\ UNCHANGED <<size, obstacle_density, obstacles, start_position, goal_position,
                   q_table, trainVars, training_status, training_thread, request>>

NextInterface ==
    \/ \E visualize \in BOOLEAN : \E episodes \in EpisodesAsked(visualize) :
          TrainAgent(visualize, episodes)
    \/ RequestCall
    \/ RequestEpisodeReturn
    \/ RequestFind
    \/ GetWorld
    \/ RequestPathReturn
    \/ ThreadBegin
    \/ ThreadFor
    \/ ThreadWhile
    \/ ThreadSleep
    \/ ThreadCall
    \/ ThreadEpisodeReturn
    \/ ThreadFind
    \/ ThreadPathReturn
    \/ TrainLoopAlone
    \/ PathIterAlone
    \/ GetTrainingStatus
    \/ \E given \in BOOLEAN, action \in StepActions :
          (given \/ action = 0) /\ TakeStep(given, action)
    \/ TogglePause
    \/ StopTraining
    \/ ResetAgentPosition

\* The world is the obstacle-free 2 x 2 grid with the start in one corner and
\* the goal in the opposite one.
InitInterfaceRun ==
    /\ InitWith({<<2, 0>>})
    /\ start_position = <<0, 0>>
    /\ goal_position = <<1, 1>>

SpecInterface == InitInterfaceRun /\ [][NextInterface]_vars

-----------------------------------------------------------------------------
(* Trainer.find_optimal_path called again, with the max_steps of the first *)
(* call, on the table update_q_table calls have prepared, the agent being  *)
(* stepped between the calls.                                              *)

\* The most find_optimal_path calls in one run.
MaxPathCalls == 2

\* The find_optimal_path calls that have returned.
PathCalls == Cardinality({i \in 1 .. Len(trace) : trace[i].op = "find_optimal_path"})

\* Agent.step(action) between two find_optimal_path calls.
StepBetween(action) ==
    /\ pc = "idle"
    /\ Last.op = "find_optimal_path"
    /\ LET out == step_outcome(position, direction, action)
       IN  /\ position' = out.position
           /\ direction' = out.direction
    /\ trace' = Append(trace, StepCall(position, direction, q_table, action))
    /\ UNCHANGED <<worldVars, q_table, trainVars>>

NextAgain ==
    \/ \E action \in Actions : TeachRoute(action) /\ UNCHANGED apiVars
    \/ \E action \in Actions : StepBetween(action) /\ UNCHANGED apiVars
    \/ \E ms \in 0 .. MaxPathSteps :
          /\ PathCalls < MaxPathCalls
          /\ PathCalls = 0 \/ ms = max_steps
          /\ PathBegin(ms)
          /\ UNCHANGED apiVars
    \/ PathIterAlone
    \/ PathReturnAlone

\* The world is a 2 x 2 grid, with or without an obstacle, and the start in
\* the corner.
InitAgain ==
    /\ InitWith(PathParams)
    /\ start_position = <<0, 0>>

SpecAgain == InitAgain /\ [][NextAgain]_vars

-----------------------------------------------------------------------------
(* What the claims are stated in: the cells and poses of a call, read off  *)
(* the world's obstacle set and the call's record.                         *)

RowStep == <<-1, 0, 1, 0>>     \* North, East, South, West
ColStep == <<0, 1, 0, -1>>

\* The cell n steps ahead (n < 0: behind) of state s.
Ahead(s, n) == <<s[1] + n * RowStep[s[3] + 1], s[2] + n * ColStep[s[3] + 1]>>

\* The cell a call with this action proposes from state s.
Candidate(s, action) ==
    IF action = 0 THEN Ahead(s, 1)
    ELSE IF action = 3 THEN Ahead(s, -1)
    ELSE <<s[1], s[2]>>

OutOfBounds(c) == c[1] < 0 \/ c[1] > size - 1 \/ c[2] < 0 \/ c[2] > size - 1

Blocked(c) == OutOfBounds(c) \/ c \in obstacles

PosOf(s) == <<s[1], s[2]>>

StepIndexes == {i \in 1 .. Len(trace) : trace[i].op = "step"}

\* The agent's pose is what the last completed call returned.
PoseIsLastReturned == Last.next_state = <<position[1], position[2], direction>>

\* C1: a Forward or Backward step whose candidate cell is out of bounds or an
\* obstacle leaves position and direction as they were and returns reward
\* -1.0 and done = false.
C1_InvalidMoveReverted ==
    /\ PoseIsLastReturned
    /\ \A i \in StepIndexes :
          (trace[i].action \in {0, 3} /\ Blocked(Candidate(trace[i].state, trace[i].action)))
          => /\ trace[i].next_state = trace[i].state
             /\ trace[i].reward = <<-1, 1>>
             /\ trace[i].done = FALSE

\* A Forward step ran into the grid's edge and a Backward step into an obstacle.
C1_Witness ==
    /\ \E i \in StepIndexes :
          trace[i].action = 0 /\ OutOfBounds(Candidate(trace[i].state, 0))
    /\ \E i \in StepIndexes :
          trace[i].action = 3 /\ Candidate(trace[i].state, 3) \in obstacles

\* C2: a step whose move is valid leaves the agent on the candidate cell and
\* returns +10.0 and done = true exactly when that cell is goal_position, and
\* -0.1 and done = false otherwise.
C2_ValidMoveReward ==
    /\ PoseIsLastReturned
    /\ \A i \in StepIndexes :
          LET c == Candidate(trace[i].state, trace[i].action)
          IN  ~Blocked(c)
              => /\ PosOf(trace[i].next_state) = c
                 /\ c = goal_position => (trace[i].reward = <<10, 1>> /\ trace[i].done = TRUE)
                 /\ c # goal_position => (trace[i].reward = <<-1, 10>> /\ trace[i].done = FALSE)

\* One valid move arrived on the goal and another on a cell that is not the goal.
C2_Witness ==
    /\ \E i \in StepIndexes :
          /\ trace[i].action \in {0, 3}
          /\ Candidate(trace[i].state, trace[i].action) = goal_position
          /\ position = goal_position
    /\ \E i \in StepIndexes :
          /\ trace[i].action \in {0, 3}
          /\ ~Blocked(Candidate(trace[i].state, trace[i].action))
          /\ Candidate(trace[i].state, trace[i].action) # goal_position

\* C3 (the claim as stated): every TurnRight or TurnLeft step, also one taken
\* while the agent stands on goal_position, returns reward -0.1 and done = false.
C3_TurnNeverGoal ==
    \A i \in StepIndexes :
        trace[i].action \in {1, 2}
        => (trace[i].reward = <<-1, 10>> /\ trace[i].done = FALSE)

\* C4: Forward proposes the cell one step in the facing direction and Backward
\* the cell one step opposite, both leaving direction unchanged; TurnRight sets
\* direction to (direction+1) mod 4 and TurnLeft to (direction-1) mod 4, both
\* leaving position unchanged; direction stays in 0..3; TurnLeft undoes
\* TurnRight; and k Forward steps along a free line of k cells ending on the goal
\* return -0.1/false k-1 times and then 10.0/true.
C4_ActionMapping ==
    /\ PoseIsLastReturned
    /\ direction \in 0 .. 3
    /\ \A i \in StepIndexes :
          LET s == trace[i].state
              t == trace[i].next_state
          IN  /\ t[3] \in 0 .. 3
              /\ trace[i].action = 0 =>
                    /\ t[3] = s[3]
                    /\ PosOf(t) = IF Blocked(Ahead(s, 1)) THEN PosOf(s) ELSE Ahead(s, 1)
              /\ trace[i].action = 3 =>
                    /\ t[3] = s[3]
                    /\ PosOf(t) = IF Blocked(Ahead(s, -1)) THEN PosOf(s) ELSE Ahead(s, -1)
              /\ trace[i].action = 1 =>
                    /\ PosOf(t) = PosOf(s)
                    /\ t[3] = IF s[3] = 3 THEN 0 ELSE s[3] + 1
              /\ trace[i].action = 2 =>
                    /\ PosOf(t) = PosOf(s)
                    /\ t[3] = IF s[3] = 0 THEN 3 ELSE s[3] - 1
              /\ (trace[i].action = 1 /\ i + 1 \in StepIndexes /\ trace[i + 1].action = 2)
                    => trace[i + 1].next_state = s
    /\ \A i \in StepIndexes : \A k \in 1 .. Len(trace) - i + 1 :
          LET s == trace[i].state
          IN  ( /\ \A m \in 0 .. k - 1 : i + m \in StepIndexes /\ trace[i + m].action = 0
                /\ \A m \in 1 .. k : ~Blocked(Ahead(s, m))
                /\ \A m \in 0 .. k - 1 : Ahead(s, m) # goal_position
                /\ Ahead(s, k) = goal_position )
              => /\ \A m \in 0 .. k - 2 :
                      trace[i + m].reward = <<-1, 10>> /\ trace[i + m].done = FALSE
                 /\ trace[i + k - 1].reward = <<10, 1>>
                 /\ trace[i + k - 1].done = TRUE
                 /\ PosOf(trace[i + k - 1].next_state) = goal_position

\* Two Forward steps in a row along a free line of two cells ended on the goal.
C4_Witness ==
    /\ Len(trace) >= 3
    /\ trace[Len(trace) - 1].op = "step" /\ trace[Len(trace) - 1].action = 0
    /\ Last.op = "step" /\ Last.action = 0
    /\ PosOf(trace[Len(trace) - 1].next_state) # PosOf(trace[Len(trace) - 1].state)
    /\ position = goal_position
    /\ Last.done = TRUE

-----------------------------------------------------------------------------
(* The Q-table as the claims read it: a state without an entry reads as    *)
(* four zeros.                                                             *)

Read(qt, state, action) == IF state \in DOMAIN qt THEN qt[state][action] ELSE <<0, 1>>

\* The largest of the four values of a state.
MaxOf(qt, state) ==
    CHOOSE v \in {Read(qt, state, b) : b \in 0 .. 3} :
        \A b \in 0 .. 3 : ~RLess(v, Read(qt, state, b))

\* The Q-table call i left: the one the next call found, or the current one.
TableAfter(i) == IF i < Len(trace) THEN trace[i + 1].q ELSE q_table

\* The target of update call i: reward + gamma * m, m being 0 when done and
\* else the largest value of next_state in the table qt.
Target(i, qt) ==
    IF trace[i].done THEN trace[i].reward
    ELSE RAdd[trace[i].reward, RMul[<<9, 10>>, MaxOf(qt, trace[i].next_state)]]

Distance(x, y) == RAbs(RSub[x, y])

\* C5: update_q_table sets Q[state][action] to old + alpha*(reward + gamma*m - old),
\* m being 0 when done and else the maximum of the four values of next_state
\* (zero without an entry), and changes no other (state, action) value.
C5_UpdateRule ==
    \A i \in UpdateIndexes :
        LET c == trace[i]
            old == Read(c.q, c.state, c.action)
            m == IF c.done THEN <<0, 1>> ELSE MaxOf(c.q, c.next_state)
            \* old + (reward + 9/10 m - old)/10 = 9/10 old + 1/10 reward + 9/100 m
            expected == RAdd[RMul[<<9, 10>>, old],
                             RAdd[RMul[<<1, 10>>, c.reward], RMul[<<9, 100>>, m]]]
        IN  /\ Read(TableAfter(i), c.state, c.action) = expected
            /\ \A s \in DOMAIN c.q \cup DOMAIN TableAfter(i) : \A a \in 0 .. 3 :
                  <<s, a>> # <<c.state, c.action>>
                  => Read(TableAfter(i), s, a) = Read(c.q, s, a)

\* An update that was not done read a non-zero maximum from another state's
\* entry and left a non-zero value.
C5_Witness ==
    /\ Last.op = "update"
    /\ ~Last.done
    /\ Last.next_state # Last.state
    /\ MaxOf(Last.q, Last.next_state) # <<0, 1>>
    /\ Read(q_table, Last.state, Last.action) # <<0, 1>>

\* C6, in exact arithmetic: every update_q_table call moves Q[state][action]
\* strictly closer to the target reward + gamma*max(Q[next_state]) (reward
\* alone when done) unless it already equals it, and never past it, also when
\* next_state equals state.  The target is read before the call and, the
\* second conjunct, after it.
C6_ExactContraction ==
    \A i \in UpdateIndexes :
        LET c == trace[i]
            old == Read(c.q, c.state, c.action)
            new == Read(TableAfter(i), c.state, c.action)
            t == Target(i, c.q)
            u == Target(i, TableAfter(i))
        IN  /\ IF old = t THEN new = t
               ELSE /\ RLess(Distance(new, t), Distance(old, t))
                    /\ RLess(old, t) => ~RLess(t, new)
                    /\ RLess(t, old) => ~RLess(new, t)
            /\ IF old = t THEN new = u
               ELSE /\ RLess(Distance(new, u), Distance(old, t))
                    /\ RLess(old, t) => ~RLess(u, new)
                    /\ RLess(t, old) => ~RLess(new, u)

\* An update with next_state = state changed the largest value of that state,
\* so that the target moved with it, the value coming down from above.
C6_ExactWitness ==
    /\ Last.op = "update"
    /\ Last.next_state = Last.state
    /\ ~Last.done
    /\ Target(Len(trace), Last.q) # Target(Len(trace), q_table)
    /\ RLess(Target(Len(trace), Last.q), Read(Last.q, Last.state, Last.action))

\* The binary64 Q-table as the claims read it.
Read64(qt, state, action) == IF state \in DOMAIN qt THEN qt[state][action] ELSE DZero

MaxOf64(qt, state) ==
    CHOOSE v \in {Read64(qt, state, b) : b \in 0 .. 3} :
        \A b \in 0 .. 3 : ~DLess(v, Read64(qt, state, b))

\* The target of the update call c as the call computes it.
Target64(c) ==
    IF c.done THEN c.reward
    ELSE FAdd(c.reward, FMul(Literal(9, 10), MaxOf64(c.q, c.next_state)))

\* |x - y|, exactly
Distance64(x, y) == DAbs(DSub(x, y))

Old64 == Read64(Last.q, Last.state, Last.action)
New64 == Read64(q_table, Last.state, Last.action)

Relative(x) == DMul(x, [s |-> 0, m |-> <<1>>, e |-> -49])

ChooseIndexes == {i \in 1 .. Len(trace) : trace[i].op = "choose"}

\* C7: choose_action returns an index in 0..3; when it does not explore it
\* returns the lowest index among those with the maximal stored value, hence
\* Forward (0) for a state with no entry or an all-zero entry.
C7_ChooseAction ==
    \A i \in ChooseIndexes :
        LET c == trace[i]
        IN  /\ c.action \in 0 .. 3
            /\ ~c.explore =>
                  /\ \A b \in 0 .. 3 : ~RLess(Read(c.q, c.state, c.action), Read(c.q, c.state, b))
                  /\ \A b \in 0 .. c.action - 1 :
                        RLess(Read(c.q, c.state, b), Read(c.q, c.state, c.action))
                  /\ (\A b \in 0 .. 3 : Read(c.q, c.state, b) = <<0, 1>>) => c.action = 0

\* A greedy choice on a state whose maximal value is held by several actions,
\* the first of them not being Forward.
C7_Witness ==
    /\ Last.op = "choose"
    /\ ~Last.explore
    /\ Last.action # 0
    /\ \E b \in 0 .. 3 :
          b > Last.action /\ Read(Last.q, Last.state, b) = Read(Last.q, Last.state, Last.action)

-----------------------------------------------------------------------------
ResetIndexes == {i \in 1 .. Len(trace) : trace[i].op = "reset"}

\* C8: after Agent.reset(), from any pose, get_state() is (start_x, start_y, 0)
\* and the Q-table has the keys and values it had before the call.
C8_ResetKeepsTable ==
    /\ \A i \in ResetIndexes :
          /\ trace[i].next_state = <<start_position[1], start_position[2], 0>>
          /\ DOMAIN TableAfter(i) = DOMAIN trace[i].q
          /\ \A s \in DOMAIN trace[i].q : TableAfter(i)[s] = trace[i].q[s]
    /\ Last.op = "reset" =>
          <<position[1], position[2], direction>> = <<start_position[1], start_position[2], 0>>

\* A reset of an agent that stood away from the start, facing another way than
\* North, with learned values in its table.
C8_Witness ==
    /\ Last.op = "reset"
    /\ PosOf(Last.state) # start_position
    /\ Last.state[3] # 0
    /\ \E s \in DOMAIN q_table : \E a \in 0 .. 3 : q_table[s][a] # <<0, 1>>

\* The first call of the episode in progress or last completed: its reset.
EpisodeStart == CHOOSE i \in ResetIndexes : \A j \in ResetIndexes : j <= i

\* The step calls of that episode.
EpisodeSteps == {i \in StepIndexes : i > EpisodeStart}

\* The cells around the start are all blocked.
StartEnclosed ==
    \A d \in 0 .. 3 : Blocked(Ahead(<<start_position[1], start_position[2], d>>, 1))

\* The steps train_episode returns are those it executed, and at most max_steps.
C9_StepsBounded ==
    /\ pc = "loop" => (steps = Cardinality(EpisodeSteps) /\ steps <= max_steps)
    /\ Last.op = "train_episode" =>
          (Last.steps = Cardinality(EpisodeSteps) /\ Last.steps <= max_steps)

\* C9: train_episode(max_steps) terminates for every world, Q-table and sequence
\* of exploration choices, also from a start enclosed by obstacles, after at most
\* max_steps steps; the returned steps is the number of steps executed and is
\* at most max_steps.
C9_EpisodeTerminates ==
    /\ []C9_StepsBounded
    /\ (pc = "loop") ~> (pc = "idle")

\* An episode from a start enclosed by obstacles and the grid's edge returned
\* after max_steps >= 2 steps.
C9_Witness ==
    /\ Last.op = "train_episode"
    /\ StartEnclosed
    /\ obstacles # {}
    /\ Last.steps = max_steps
    /\ max_steps >= 2

RECURSIVE SumRewards(_)
SumRewards(I) ==
    IF I = {} THEN <<0, 1>>
    ELSE LET i == CHOOSE j \in I : TRUE
         IN  RAdd[trace[i].reward, SumRewards(I \ {i})]

\* C10: when train_episode returns steps < max_steps the agent stands on
\* goal_position and the last step returned done = true; an episode that never
\* reaches the goal returns steps = max_steps; the reward returned is the sum of
\* the episode's step rewards.
C10_EpisodeResult ==
    Last.op = "train_episode" =>
        /\ pc = "idle"
        /\ Last.steps < max_steps =>
              /\ position = goal_position
              /\ EpisodeSteps # {}
              /\ \A i \in EpisodeSteps : (\A j \in EpisodeSteps : j <= i) => trace[i].done
        /\ (\A i \in EpisodeSteps : ~trace[i].done) => Last.steps = max_steps
        /\ Last.reward = SumRewards(EpisodeSteps)

\* An episode reached the goal on its second step, before max_steps.
C10_Witness ==
    /\ Last.op = "train_episode"
    /\ Last.steps = 1
    /\ max_steps = 2
    /\ position = goal_position

-----------------------------------------------------------------------------
(* find_optimal_path as the trace shows it: the reset that opens the run   *)
(* is the last reset of the trace, its steps are the records after it.     *)

PathRunning == pc \in {"path", "break"} \/ Last.op = "find_optimal_path"

\* The k-th step of the run.
PathStep(k) == trace[EpisodeStart + k]

\* The state the k-th step of the run started in.
PathStateBefore(k) ==
    IF k = 1 THEN trace[EpisodeStart].next_state ELSE PathStep(k - 1).next_state

\* The lowest index among the largest values of a state in the table qt.
FirstArgmax(qt, state) ==
    CHOOSE a \in 0 .. 3 :
        /\ \A b \in 0 .. 3 : ~RLess(Read(qt, state, a), Read(qt, state, b))
        /\ \A b \in 0 .. a - 1 : RLess(Read(qt, state, b), Read(qt, state, a))

\* After k steps of the run one of the three reasons to stop holds.
PathStop(k) ==
    \/ k >= 1 /\ PathStep(k).done
    \/ k = max_steps
    \/ k >= 3 /\ path[k + 1] = path[k - 1]

\* C11: find_optimal_path(max_steps) resets the agent, follows the lowest-index
\* argmax action step by step, appends the position after every step, and
\* stops exactly when a step returned done, max_steps steps were taken or, from
\* the third step on, the position just recorded is the one recorded two steps
\* earlier; the path starts at start_position and has one entry per step plus one.
C11_FindOptimalPath ==
    PathRunning =>
        /\ trace[EpisodeStart].next_state = <<start_position[1], start_position[2], 0>>
        /\ path[1] = start_position
        /\ Len(path) = steps + 1
        /\ Cardinality(EpisodeSteps) = steps
        /\ \A k \in 1 .. steps :
              /\ PathStep(k).op = "step"
              /\ PathStep(k).state = PathStateBefore(k)
              /\ PathStep(k).action = FirstArgmax(PathStep(k).q, PathStep(k).state)
              /\ path[k + 1] = PosOf(PathStep(k).next_state)
        /\ \A k \in 0 .. steps - 1 : ~PathStop(k)
        /\ pc = "break" => PathStop(steps)
        /\ Last.op = "find_optimal_path" => PathStop(steps) /\ Last.steps = steps

\* A run returned because of the loop check alone, the agent having moved
\* back and forth, with steps to spare.
C11_Witness ==
    /\ Last.op = "find_optimal_path"
    /\ ~Last.done
    /\ steps = 3
    /\ steps < max_steps
    /\ path[4] = path[2]
    /\ path[3] # path[2]

\* Following the lowest-index argmax of the table qt from the state s for at
\* most n steps: whether the goal is reached, after how many steps, and how
\* many of them were rotations.
RECURSIVE GreedyRun(_, _, _)
GreedyRun(qt, s, n) ==
    IF n = 0 THEN [reached |-> FALSE, steps |-> 0, rotations |-> 0]
    ELSE LET action == FirstArgmax(qt, s)
             out == step_outcome(PosOf(s), s[3], action)
             turn == IF action \in {1, 2} THEN 1 ELSE 0
             rest == GreedyRun(qt, get_state(out.position, out.direction), n - 1)
         IN  IF out.done THEN [reached |-> TRUE, steps |-> 1, rotations |-> turn]
             ELSE [reached |-> rest.reached, steps |-> rest.steps + 1,
                   rotations |-> rest.rotations + turn]

\* No obstacle lies in the rectangle spanned by start and goal.
NoObstacleBetween ==
    \A c \in obstacles :
        \/ c[1] < start_position[1] /\ c[1] < goal_position[1]
        \/ c[1] > start_position[1] /\ c[1] > goal_position[1]
        \/ c[2] < start_position[2] /\ c[2] < goal_position[2]
        \/ c[2] > start_position[2] /\ c[2] > goal_position[2]

\* The greedy run of the table find_optimal_path was called with, cut off one
\* step before max_steps.
RunOfCall == GreedyRun(trace[EpisodeStart].q, trace[EpisodeStart].next_state, max_steps - 1)

\* The greedy policy leads from the start pose to the goal in fewer than
\* max_steps steps, moving no more often than the Manhattan distance asks.
PolicyLeadsToGoal ==
    /\ max_steps >= 1
    /\ RunOfCall.reached
    /\ RunOfCall.steps - RunOfCall.rotations = manhattan_distance(start_position, goal_position)

\* C12: in a world with no obstacle between start and goal and a Q-table whose
\* greedy policy leads from the start pose to the goal, find_optimal_path
\* returns a path that ends at goal_position, with as many steps as the
\* Manhattan distance from start to goal plus the rotations of the policy, and
\* stops before max_steps.
C12_GreedyPathReachesGoal ==
    (Last.op = "find_optimal_path" /\ NoObstacleBetween /\ PolicyLeadsToGoal) =>
        /\ path[Len(path)] = goal_position
        /\ steps = manhattan_distance(start_position, goal_position) + RunOfCall.rotations
        /\ steps < max_steps

\* The states the greedy policy of the table qt passes through from s in n
\* steps, the check of find_optimal_path left aside, each with whether the step
\* into it returned done.
RECURSIVE GreedyWalk(_, _, _)
GreedyWalk(qt, s, n) ==
    IF n = 0 THEN << >>
    ELSE LET out == step_outcome(PosOf(s), s[3], FirstArgmax(qt, s))
             next == get_state(out.position, out.direction)
         IN  <<[state |-> next, done |-> out.done]>> \o GreedyWalk(qt, next, n - 1)

\* The walk of the table find_optimal_path was called with, long enough to
\* show what the policy does for ever: two cells hold 8 states, so that a walk
\* that stays on two cells for 8 steps has entered its cycle.
WalkOfCall ==
    <<[state |-> trace[EpisodeStart].next_state, done |-> FALSE]>>
        \o GreedyWalk(trace[EpisodeStart].q, trace[EpisodeStart].next_state,
                      MaxPathSteps + 17)

\* The position after k steps of the walk w.
WalkPos(w, k) == PosOf(w[k + 1].state)

\* The policy whose walk is w never reaches the goal and, from its step a + 1
\* on, which takes it from one cell to another, it stays on these two cells for
\* ever and keeps visiting both.
AlternationBeginsAt(w, a) ==
    /\ \A k \in 1 .. Len(w) : ~w[k].done
    /\ WalkPos(w, a) # WalkPos(w, a + 1)
    /\ \A k \in a .. a + 17 : WalkPos(w, k) \in {WalkPos(w, a), WalkPos(w, a + 1)}
    /\ \E k \in a + 9 .. a + 17 : WalkPos(w, k) = WalkPos(w, a)
    /\ \E k \in a + 9 .. a + 17 : WalkPos(w, k) = WalkPos(w, a + 1)

\* C13: when the greedy policy makes the agent alternate between two adjacent
\* cells without reaching the goal, find_optimal_path returns at most 3 steps
\* after the alternation begins, whatever max_steps is.
C13_OscillationStops ==
    Last.op = "find_optimal_path" =>
        LET w == WalkOfCall
        IN  \A a \in 0 .. MaxPathSteps : AlternationBeginsAt(w, a) => steps <= a + 3

\* A run on a policy that alternates from the start returned after 3 steps,
\* max_steps being two steps further.
C13_Witness ==
    /\ Last.op = "find_optimal_path"
    /\ steps = 3
    /\ max_steps = 5
    /\ LET w == WalkOfCall IN AlternationBeginsAt(w, 0)

-----------------------------------------------------------------------------
InBounds(c) == c[1] \in 0 .. size - 1 /\ c[2] \in 0 .. size - 1

\* C14: after every successful World generation start_position differs from
\* goal_position, both are inside 0..size-1 on both axes, and neither is one of
\* the obstacle cells.
C14_StartGoalPlaced ==
    (Last.op = "World.reset" /\ pc = "idle") =>
        /\ start_position # goal_position
        /\ start_position \in Seq(Int) /\ Len(start_position) = 2
        /\ goal_position \in Seq(Int) /\ Len(goal_position) = 2
        /\ InBounds(start_position)
        /\ InBounds(goal_position)
        /\ start_position \notin obstacles
        /\ goal_position \notin obstacles

\* A world was generated in which start and goal are the only empty cells.
C14_Witness ==
    /\ Last.op = "World.reset"
    /\ pc = "idle"
    /\ obstacles # {}
    /\ Cells(size) \ obstacles = {start_position, goal_position}

\* size * size * obstacle_density as World.reset computes it, in binary64
ObstacleProduct == FMul(FloatOfInt(size * size), Literal(obstacle_density, 100))

\* C15 as stated: World generation places exactly round(size*size*density)
\* obstacles, for every size and every density in [0, 1].
C15_RoundedObstacleCount ==
    Last.op = "World.reset" =>
        \/ 100 * Cardinality(obstacles) - size * size * obstacle_density \in -49 .. 49
        \/ /\ 100 * Cardinality(obstacles) - size * size * obstacle_density \in {-50, 50}
           /\ Cardinality(obstacles) % 2 = 0

\* C15 amended: World generation places exactly int(size*size*density)
\* obstacles, the binary64 product with the digits after the point dropped:
\* the count n is the integer with n <= product < n + 1.
C15_TruncatedObstacleCount ==
    Last.op = "World.reset" =>
        /\ ~DLess(ObstacleProduct, FloatOfInt(Cardinality(obstacles)))
        /\ DLess(ObstacleProduct, FloatOfInt(Cardinality(obstacles) + 1))

\* A world of size 2 and density 0.4 was given 1 obstacle, 1.6 cut down.
C15_Witness ==
    /\ Last.op = "World.reset"
    /\ size = 2
    /\ obstacle_density = 40
    /\ Cardinality(obstacles) = 1

\* C16 as stated, size/3 being the fraction: whenever an empty cell other than
\* start has Manhattan distance >= max(3, size/3) to start, so has the goal.
FarReal(c) ==
    /\ manhattan_distance(start_position, c) >= 3
    /\ 3 * manhattan_distance(start_position, c) >= size

C16_GoalFarFraction ==
    (Last.op = "World.reset" /\ pc = "idle") =>
        ((\E c \in Cells(size) \ (obstacles \cup {start_position}) : FarReal(c))
            => FarReal(goal_position))

\* The distance to start is at least max(3, size/3), size/3 rounded down.
FarFloor(c) ==
    /\ manhattan_distance(start_position, c) >= 3
    /\ manhattan_distance(start_position, c) >= size \div 3

\* C16 amended: whenever an empty cell other than start has Manhattan distance
\* >= max(3, size/3 rounded down) to start, so has the generated goal; only when
\* there is no such cell is the goal any other empty cell.
C16_GoalFarFloor ==
    (Last.op = "World.reset" /\ pc = "idle") =>
        /\ goal_position \in Cells(size) \ (obstacles \cup {start_position})
        /\ (\E c \in Cells(size) \ (obstacles \cup {start_position}) : FarFloor(c))
              => FarFloor(goal_position)

\* A world of size 10 was given a goal at distance 3, which is max(3, 10 // 3)
\* and less than 10/3.
C16_Witness ==
    /\ Last.op = "World.reset"
    /\ pc = "idle"
    /\ size = 10
    /\ manhattan_distance(start_position, goal_position) = 3

\* C17: World generation raises whenever fewer than 2 cells remain empty after
\* obstacle placement and succeeds whenever at least 2 remain; a world it
\* yields has a start and a goal, and they differ.
C17_RaisesForWantOfCells ==
    Last.op = "World.reset" =>
        /\ pc \in {"raised", "idle"}
        /\ pc = "raised" <=> Cardinality(Cells(size) \ obstacles) < 2
        /\ pc = "idle" =>
              /\ start_position # None
              /\ goal_position # None
              /\ start_position # goal_position

\* Generation raised with one cell left empty.
C17_Witness ==
    /\ Last.op = "World.reset"
    /\ pc = "raised"
    /\ Cardinality(Cells(size) \ obstacles) = 1

\* The cells the grid marks as obstacles.
ObstacleCells == {c \in Cells(size) : grid[c] = OBSTACLE}

\* C18: only World.reset changes the geometry: no other operation
\* (World.is_obstacle, World.step, World.reset_agent_position, World.get_state,
\* Agent.reset, Agent.step, train_episode, find_optimal_path) changes
\* start_position, goal_position or the set of obstacle cells.
C18_OnlyResetChangesGeometry ==
    [][(Last.op # "World.reset")' =>
          /\ UNCHANGED <<start_position, goal_position, obstacles>>
          /\ ObstacleCells' = ObstacleCells]_vars

\* C19: after any sequence of train_episode, find_optimal_path, Agent.step and
\* update_q_table calls, every state the agent has come to stand in by a step,
\* the state in which it arrived on the goal included, has an entry in q_table.
C19_OccupiedStatesHaveEntries ==
    pc = "idle" => \A i \in StepIndexes : trace[i].next_state \in DOMAIN q_table

\* C20: no Q-table entry is ever removed or reset by anything but
\* update_q_table's arithmetic: every call leaves the keys it found, it leaves
\* their values unless it is the update of that (state, action) value, which
\* becomes old + alpha*(reward + gamma*m - old); so the values an episode
\* learned are there when the next one begins.
C20_TableOnlyGrows ==
    \A i \in 1 .. Len(trace) :
        LET c == trace[i]
            after == TableAfter(i)
            m == IF c.done THEN <<0, 1>> ELSE MaxOf(c.q, c.next_state)
        IN  /\ DOMAIN c.q \subseteq DOMAIN after
            /\ \A s \in DOMAIN c.q : \A a \in 0 .. 3 :
                  after[s][a] # c.q[s][a] =>
                      /\ c.op = "update"
                      /\ c.state = s
                      /\ c.action = a
                      /\ after[s][a] = RAdd[RMul[<<9, 10>>, c.q[s][a]],
                                            RAdd[RMul[<<1, 10>>, c.reward],
                                                 RMul[<<9, 100>>, m]]]

\* An episode has returned and the next one has begun with a value the first
\* one learned in the table.
C20_Witness ==
    /\ pc = "loop"
    /\ Last.op = "reset"
    /\ Len(trace) > 2
    /\ trace[Len(trace) - 1].op = "train_episode"
    /\ trace[Len(trace) - 1].steps > 0
    /\ \E s \in DOMAIN q_table : \E a \in 0 .. 3 : q_table[s][a] # <<0, 1>>

-----------------------------------------------------------------------------
\* The step calls of the episode in progress or last completed, in order.
RECURSIVE InOrder(_)
InOrder(I) ==
    IF I = {} THEN << >>
    ELSE LET m == CHOOSE i \in I : \A j \in I : j <= i
         IN  Append(InOrder(I \ {m}), m)

\* The start position followed by the position after each step of the episode.
EpisodePositions ==
    << PosOf(trace[EpisodeStart].next_state) >> \o
    [k \in 1 .. Cardinality(EpisodeSteps) |-> PosOf(trace[InOrder(EpisodeSteps)[k]].next_state)]

IsPrefix(s, t) == Len(s) <= Len(t) /\ \A k \in 1 .. Len(s) : s[k] = t[k]

IsSuffix(s, t) == Len(s) <= Len(t) /\ \A k \in 1 .. Len(s) : s[k] = t[Len(t) - Len(s) + k]

\* C21: from the start of a train_episode on, current_path holds the start
\* position followed by the position after each of the episode's steps, in
\* order (steps + 1 entries), nothing of an earlier episode; no step of a
\* Trainer operation shortens or reorders visited_cells, and the episode's
\* positions are what train_episode has appended to its end.
C21_PathsOfEpisode ==
    /\ [](  (pc = "loop" \/ Last.op = "train_episode") =>
              /\ current_path = EpisodePositions
              /\ Len(current_path) = steps + 1
              /\ IsSuffix(current_path, visited_cells)  )
    /\ [][ /\ IsPrefix(visited_cells, visited_cells')
           /\ (visited_cells' # visited_cells) =>
                 (pc' = "loop" /\ Len(visited_cells') = Len(visited_cells) + 1) ]_vars

\* A second episode has returned after two steps: current_path holds its three
\* positions and visited_cells those of the first episode before them.
C21_Witness ==
    /\ Last.op = "train_episode"
    /\ Last.steps = 2
    /\ Len(visited_cells) > Len(current_path)
    /\ \E k \in 2 .. Len(current_path) : current_path[k] # current_path[1]

-----------------------------------------------------------------------------
\* C30: after any sequence of Agent.reset and Agent.step calls on a generated
\* world, the agent's position is a cell of the grid that is no obstacle and
\* its direction is in 0..3.
C30_PoseStaysValid ==
    /\ position \in Cells(size)
    /\ position \notin obstacles
    /\ direction \in 0 .. 3

\* The agent has turned right from West to North and then tried to move onto an
\* obstacle or off the grid.
C30_Witness ==
    /\ Len(trace) > 2
    /\ trace[Len(trace) - 1].op = "step"
    /\ trace[Len(trace) - 1].action = 1
    /\ trace[Len(trace) - 1].state[3] = 3
    /\ Last.op = "step"
    /\ Last.action \in {0, 3}
    /\ Blocked(Candidate(Last.state, Last.action))

-----------------------------------------------------------------------------
\* C29: World.is_obstacle(cell) returns true exactly when the cell is in bounds
\* and is one of the obstacle cells of the last generation; so it returns
\* false for a cell off the grid on any side and for the start cell, the goal
\* cell and every empty cell.
C29_IsObstacle ==
    Last.op = "World.is_obstacle" =>
        /\ Last.done = (InBounds(Last.state) /\ Last.state \in obstacles)
        /\ ~InBounds(Last.state) => ~Last.done
        /\ Last.state \in {start_position, goal_position} => ~Last.done
        /\ Last.state \in Cells(size) \ obstacles => ~Last.done

\* is_obstacle has returned false for a place off the grid whose index, counted
\* from the other end, is an obstacle cell, after World.step has moved the
\* Agent marker.
C29_Witness ==
    /\ Last.op = "World.is_obstacle"
    /\ ~Last.done
    /\ ~InBounds(Last.state)
    /\ <<Last.state[1] % size, Last.state[2] % size>> \in obstacles
    /\ \E i \in 1 .. Len(trace) : trace[i].op = "World.step" /\ trace[i].state # trace[i].next_state

\* is_obstacle has returned true for an obstacle cell.
C29_WitnessTrue ==
    /\ Last.op = "World.is_obstacle"
    /\ Last.done

-----------------------------------------------------------------------------
GoalCells == {c \in Cells(size) : grid[c] = GOAL}

AgentCells == {c \in Cells(size) : grid[c] = AGENT}

\* C28: in every state the World's operations (reset, reset_agent_position,
\* step) reach, the grid holds exactly one Goal cell and at most one Agent
\* cell, and between two operations, no step being under way, the Agent cell
\* is there.
C28_OneGoalOneAgent ==
    pc = "idle" =>
        /\ Cardinality(GoalCells) = 1
        /\ Cardinality(AgentCells) = 1

\* The part of C28 about the Goal cell alone.
C28_OneGoal == pc = "idle" => Cardinality(GoalCells) = 1

-----------------------------------------------------------------------------
(* C27 *)

\* C27: Agent.step is only ever called with an action in 0..3, and a /step
\* request carrying any other action is rejected: its pose is the one before
\* it, and it reports no reward and no done.
C27_ActionValidated ==
    \A i \in 1 .. Len(trace) :
        /\ (trace[i].op = "step") => (trace[i].action \in 0 .. 3)
        /\ (trace[i].op = "take_step" /\ trace[i].action \notin 0 .. 3) =>
              /\ trace[i].steps = BadRequest
              /\ trace[i].next_state = trace[i].state
              /\ trace[i].reward = Zero
              /\ ~trace[i].done

\* The half of it that holds: a /step request without an action is rejected
\* before the agent is reached.
C27_MissingActionRejected ==
    \A i \in 1 .. Len(trace) :
        (trace[i].op = "take_step" /\ trace[i].action = -1) =>
            /\ trace[i].steps = BadRequest
            /\ trace[i].next_state = trace[i].state

-----------------------------------------------------------------------------
(* C22 *)

\* C22: the requests that read the Trainer's lists, /training_status and
\* /step, leave Trainer.current_path and Trainer.visited_cells as they were.
C22_ListsOwnedByTrainer ==
    [][ (Len(trace') > Len(trace) /\ Last'.op \in {"take_step", "get_training_status"}) =>
            UNCHANGED <<current_path, visited_cells>> ]_vars

\* What holds: polling the status leaves the two lists alone, and so does
\* /step as long as training_status holds lists of its own.
C22_PollingLeavesLists ==
    [][ \/ (Len(trace') > Len(trace) /\ Last'.op = "get_training_status")
        \/ /\ Len(trace') > Len(trace)
           /\ Last'.op = "take_step"
           /\ ~training_status.current_path.shared
           /\ ~training_status.visited_cells.shared
        => UNCHANGED <<current_path, visited_cells>> ]_vars

-----------------------------------------------------------------------------
(* C23 *)

\* A step of a request handler: a request is received, or one under way goes on.
HandlerStep == requests' > requests \/ request' # request

\* C23: while the training thread is alive, no step of a request handler
\* changes the agent's position, direction or Q-table, or the world.
C23_HandlersOnlyRead ==
    [][ (training_thread.alive /\ HandlerStep) =>
            UNCHANGED <<position, direction, q_table, worldVars>> ]_vars

\* What holds: the requests for the status, a pause and a stop change neither.
C23_FlagRequestsOnlyRead ==
    [][ (Len(trace') > Len(trace)
         /\ Last'.op \in {"get_training_status", "toggle_pause", "stop_training"}) =>
            UNCHANGED <<position, direction, q_table, worldVars>> ]_vars

-----------------------------------------------------------------------------
(* C24 *)

\* The background thread is in its training loop.
ThreadTraining ==
    training_thread.alive /\ training_thread.pc \in {"for", "while", "sleep", "call", "episode"}

\* A /train request without visualize is in its training loop.
RequestTraining == request.handler = "train" /\ request.pc \in {"for", "episode"}

\* C24: never are two training loops, the thread's and a request's, in
\* progress on the agent and the world at once.
C24_OneTrainingLoop == ~(ThreadTraining /\ RequestTraining)

\* What holds: a /train request with visualize that finds the thread alive is
\* rejected and starts nothing.
C24_SecondThreadRejected ==
    [][ (Len(trace') > Len(trace) /\ Last'.op = "train_agent" /\ Last'.explore
         /\ training_thread.alive) =>
            (Last'.steps = BadRequest /\ UNCHANGED <<training_thread, trainVars>>) ]_vars

-----------------------------------------------------------------------------
(* C25, C26 *)

\* The episodes the thread went on to train after the i-th record.
EpisodesBegunAfter(i) ==
    Cardinality({j \in i + 1 .. Len(trace) :
                    trace[j].op = "train_agent_thread" /\ trace[j].steps >= 1})

StopAccepted(i) == trace[i].op = "stop_training" /\ trace[i].steps = Ok

\* The thread had reset training_status when the i-th record was made.
StatusResetBefore(i) ==
    \E j \in 1 .. i - 1 : trace[j].op = "train_agent_thread" /\ trace[j].steps = 0

\* C25: after a stop request was accepted the thread goes on to train at most
\* the episode its loop had come to, whenever after the start of the thread
\* the request was made.
C25_StopEndsTraining ==
    \A i \in 1 .. Len(trace) : StopAccepted(i) => EpisodesBegunAfter(i) <= 1

\* What holds: so it is for a stop accepted after the thread reset
\* training_status.
C25_StopAfterReset ==
    \A i \in 1 .. Len(trace) :
        (StopAccepted(i) /\ StatusResetBefore(i)) => EpisodesBegunAfter(i) <= 1

PauseAccepted(i) == trace[i].op = "toggle_pause" /\ trace[i].steps = Ok /\ trace[i].explore

\* No request to resume or stop was accepted after the i-th record.
StillPaused(i) ==
    \A j \in i + 1 .. Len(trace) :
        ~(trace[j].op \in {"toggle_pause", "stop_training"} /\ trace[j].steps = Ok)

\* C26: after a pause request was accepted, and until a request to resume or
\* stop is, the thread goes on to train at most the episode in flight.
C26_PauseHoldsTraining ==
    \A i \in 1 .. Len(trace) :
        (PauseAccepted(i) /\ StillPaused(i)) => EpisodesBegunAfter(i) <= 1

\* What holds: after a pause accepted once the thread reset training_status,
\* the thread goes on to no episode.
C26_PauseAfterReset ==
    \A i \in 1 .. Len(trace) :
        (PauseAccepted(i) /\ StillPaused(i) /\ StatusResetBefore(i)) =>
            EpisodesBegunAfter(i) = 0

-----------------------------------------------------------------------------
(* C31 *)

\* The find_optimal_path calls that have returned, by their records.
FindIndexes == {i \in 1 .. Len(trace) : trace[i].op = "find_optimal_path"}

\* The reset that opened the run that returned with record j.
RunReset(j) == CHOOSE r \in ResetIndexes : r < j /\ \A k \in ResetIndexes : k < j => k <= r

\* The path of that run: the position after its reset and after each step.
PathOfRun(j) ==
    [k \in 1 .. j - RunReset(j) |-> PosOf(trace[RunReset(j) + k - 1].next_state)]

\* The tables qt and rt read alike.
SameReading(qt, rt) ==
    \A s \in DOMAIN qt \cup DOMAIN rt : \A a \in 0 .. 3 : Read(qt, s, a) = Read(rt, s, a)

\* No update_q_table call lies between the records i and j.
NoUpdateBetween(i, j) == \A k \in i .. j : trace[k].op # "update"

\* C31: find_optimal_path leaves every Q-value as it reads, a state without
\* an entry reading as zeros; it starts from the start pose whatever the pose
\* before the call; and a call that follows another, with the same max_steps
\* and no update in between, returns the same path from whatever pose.
C31_PathIsPureRead ==
    /\ PathRunning => SameReading(trace[EpisodeStart].q, q_table)
    /\ Last.op = "find_optimal_path" => path = PathOfRun(Len(trace))
    /\ \A j \in FindIndexes :
          /\ SameReading(trace[RunReset(j)].q, trace[j].q)
          /\ trace[RunReset(j)].next_state = get_state(start_position, 0)
          /\ \A i \in FindIndexes :
                (i < j /\ NoUpdateBetween(i, j)) =>
                    /\ PathOfRun(i) = PathOfRun(j)
                    /\ trace[i].steps = trace[j].steps
                    /\ trace[i].done = trace[j].done
                    /\ trace[i].next_state = trace[j].next_state

\* A second call has returned: the table had a value that is not zero and
\* gained entries during the first call, the agent was turned after the
\* first call, so that the second call found a pose the first did not, and the
\* path holds a move.
C31_Witness ==
    /\ Last.op = "find_optimal_path"
    /\ Cardinality(FindIndexes) = 2
    /\ \E i \in FindIndexes :
          /\ i < Len(trace)
          /\ trace[i + 1].op = "step"
          /\ trace[RunReset(Len(trace))].state # trace[RunReset(i)].state
          /\ trace[RunReset(Len(trace))].state[3] # 0
          /\ DOMAIN trace[i].q # DOMAIN trace[RunReset(i)].q
          /\ \E s \in DOMAIN trace[RunReset(i)].q : \E a \in 0 .. 3 :
                trace[RunReset(i)].q[s][a] # <<0, 1>>
    /\ Len(path) >= 3
    /\ \E k \in 2 .. Len(path) : path[k] # path[1]

=============================================================================
